---- MODULE Spec2Model ----
(***************************************************************************)
(* Model of the onedriver metadata cache (graph.Cache, first definition in *)
(* src/unnamed/part_001), the DriveItem methods of src/graph/drive_item.go *)
(* and the FUSE handlers of src/unnamed/part_000.                          *)
(*                                                                         *)
(* DriveItems are Go pointers: the model keeps a heap `objs` of item       *)
(* records and the sync.Map `metadata` from id to heap index, so that an   *)
(* item reachable under two keys, or under none, is representable.  The    *)
(* Graph server is the environment: every remote call draws its outcome    *)
(* from the outcomes the call sites distinguish.                           *)
(***************************************************************************)
EXTENDS Integers, Sequences, FiniteSets, TLC

\* ------------------------------------------------------------------ bounds
\* number of DriveItem objects ever allocated (root included)
MaxItems == 3

\* length of a children list (the list grows with every move into it)
MaxChildren == 2

\* ------------------------------------------------------- names and paths
\* file names used by the handlers; "A" and "a" differ only in case
Names == {"a", "A", "b"}

\* strings.ToLower on the names above and on the names of the ignored paths
ToLower(n) ==
    CASE n = "A" -> "a"
      [] n = "BDMV" -> "bdmv"
      [] n = ".Trash" -> ".trash"
      [] n = ".Trash-1000" -> ".trash-1000"
      [] n = ".DS_Store" -> ".ds_store"
      [] OTHER -> n

\* a path is the sequence of its components; <<>> is "/".  The handlers
\* are called with the paths of the root directory and with one path below
\* the directory b
Paths == {<<n>> : n \in Names} \cup {<<"b", "a">>}

\* the paths a rename is called with as its new path: the paths above and
\* one path that no item is ever created at
NewPaths == Paths \cup {<<"c">>}

\* filepath.Dir
Dir(p) == SubSeq(p, 1, Len(p) - 1)

\* filepath.Base (of a path other than "/")
Base(p) == p[Len(p)]

\* strings.ToLower applied to a whole path
LowerPath(p) == [i \in 1..Len(p) |-> ToLower(p[i])]

Range(s) == {s[i] : i \in 1..Len(s)}

Max(S) == CHOOSE x \in S : \A y \in S : y <= x

\* --------------------------------------------------------------- constants
S_IFDIR == 16384
S_IFREG == 32768
DirSize == 4096
MaxInt32 == 2147483647

\* uint32 arithmetic on bit patterns: a value of 2^31 or more is held as the
\* negative number with the same 32 bits, so that 0 - 1 is -1 (0xFFFFFFFF)
Inc32(x) == IF x = MaxInt32 THEN (0 - MaxInt32) - 1 ELSE x + 1

Dec32(x) == IF x = (0 - MaxInt32) - 1 THEN MaxInt32 ELSE x - 1

\* mode & bit > 0, for a single-bit mask
HasBit(mode, bit) == (mode \div bit) % 2 = 1

\* mode | bit, for a single-bit mask
OrBit(mode, bit) == IF HasBit(mode, bit) THEN mode ELSE mode + bit

\* the mode the kernel hands to create: S_IFREG and the permission bits
CreateModes == {S_IFREG + 420}

\* the mode the kernel hands to mkdir: the permission bits
MkdirModes == {493}

\* -------------------------------------------------------------------- ids
rootID == "root"

\* localID(): "local-" followed by a random string; the k-th allocated
\* object draws the k-th string
localID(k) == "local-" \o ToString(k)

\* the id the server issues for the item held locally by object k
serverID(k) == "id-" \o ToString(k)

LocalIDs == {localID(k) : k \in 1..(MaxItems + 1)}

isLocalID(id) == id \in LocalIDs \/ id = ""

\* ----------------------------------------------------------------- errors
NoErr == "nil"
ErrNotInCache == "<id> does not exist in cache"
ErrNotExist == "<path> does not exist on server or in local cache"
ErrNoAuth == "Auth was nil/zero and children were not in cache"
ErrRemote == "remote error"
ErrMoveID == "Could not get item: <id>"
ErrResourceModified == "resourceModified"
ErrNameAlreadyExists == "nameAlreadyExists"

\* strings.Contains(err.Error(), "does not exist")
ContainsDoesNotExist(err) == err \in {ErrNotInCache, ErrNotExist}

\* credentials: fs.Auth carries a token, &Auth{} does not
fsAuth == "token"
emptyAuth == ""

\* the nil *Auth that FlushContentID passes
nilAuth == "<nil>"

Nil == 0

\* ------------------------------------------------------------ delta links
\* the prefix of the links the server hands out
graphURL == "https://graph.microsoft.com/v1.0"

\* the link NewCache starts with
firstDelta == "/me/drive/root/delta?token=latest"

\* a link is the sequence of its parts, the empty string is << >>;
\* strings.TrimPrefix
TrimPrefix(s, prefix) ==
    IF s # << >> /\ s[1] = prefix THEN Tail(s) ELSE s

\* ---------------------------------------------------------- the server
\* What the server holds when the filesystem is mounted: the listing that
\* GET /me/drive/items/{id}/children answers for each directory id.
ServerChildren(id) ==
    IF id = rootID
    THEN << [id |-> "srv-1", name |-> "b", file |-> FALSE, size |-> 0] >>
    ELSE << >>

\* parentReference.path of the children of a directory, as path components
ServerPath(id) == IF id = "srv-1" THEN <<"b">> ELSE << >>

\* ------------------------------------------------------ DriveItemContent
\* the bytes of a file, and the longest content the model holds
Bytes == {"x", "y"}

MaxLen == 3

Contents == UNION {[1..n -> Bytes] : n \in 0..MaxLen}

Min(a, b) == IF a < b THEN a ELSE b

\* A DriveItemContent: data is the slice (c.data)[0:len] of the array arr,
\* whose length is the capacity of the slice
NewDriveItemContent(contents) ==
    [arr |-> contents, len |-> Len(contents), size |-> Len(contents),
     hasChanges |-> FALSE]

\* c.data
Data(b) == SubSeq(b.arr, 1, b.len)

\* what a method of DriveItemContent returns: the buffer it leaves, the
\* count or the bytes it returns, and whether a slice expression was out of
\* range
Did(b, n, data, panic) == [b |-> b, n |-> n, data |-> data, panic |-> panic]

\* DriveItemContent.Read with a buffer of n bytes: (c.data)[off:end] is out
\* of range when off is beyond the length
Read(b, n, off) ==
    IF off > b.len THEN Did(b, 0, << >>, TRUE)
    ELSE Did(b, 0, SubSeq(b.arr, off + 1, Min(off + n, b.len)), FALSE)

\* copy(arr[off:], data), for data that fits
Overwrite(arr, off, data) ==
    [i \in 1..Len(arr) |->
        IF off < i /\ i <= off + Len(data) THEN data[i - off] ELSE arr[i]]

\* append((c.data)[:off], data...): in place while the capacity suffices,
\* into a new array otherwise; the new array is given no spare capacity
AppendAt(b, off, data) ==
    IF off + Len(data) <= Len(b.arr) THEN Overwrite(b.arr, off, data)
    ELSE SubSeq(b.arr, 1, off) \o data

\* DriveItemContent.Write as it would be if it always appended
WriteAppending(b, data, off) ==
    IF off > Len(b.arr) THEN Did(b, 0, << >>, TRUE)
    ELSE Did([arr |-> AppendAt(b, off, data), len |-> off + Len(data),
              size |-> off + Len(data), hasChanges |-> TRUE],
             Len(data), << >>, FALSE)

\* DriveItemContent.Write: (c.data)[:off] is out of range when off is beyond
\* the capacity
Write(b, data, off) ==
    IF off + Len(data) > b.size - 1
    THEN IF off > Len(b.arr) THEN Did(b, 0, << >>, TRUE)
         ELSE Did([arr |-> AppendAt(b, off, data), len |-> off + Len(data),
                   size |-> off + Len(data), hasChanges |-> TRUE],
                  Len(data), << >>, FALSE)
    ELSE Did([b EXCEPT !.arr = Overwrite(b.arr, off, data),
                       !.size = b.len, !.hasChanges = TRUE],
             Len(data), << >>, FALSE)

\* DriveItemContent.Truncate: (c.data)[:size] is out of range when size is
\* beyond the capacity
Truncate(b, size) ==
    IF size > Len(b.arr) THEN Did(b, 0, << >>, TRUE)
    ELSE Did([b EXCEPT !.len = size, !.size = size, !.hasChanges = TRUE],
             0, << >>, FALSE)

\* ------------------------------------------------------------- DriveItem
\* objs, metadata: the DriveItems and the map Cache.metadata; crashed: the
\* process has ended in a panic; ret: the result of the observed call;
\* bufs: the DriveItemContent objects; content: the map Cache.content of the
\* open files; db: the content bucket of the bolt database; opens: the
\* calls of GetContentID in progress, and the buffers their callers hold;
\* moving: the handler that runs in steps (a call of MoveID, RemoteID,
\* Create or Chmod) and the item it holds; deltaLink: the field of the
\* Cache, a string held as the sequence of its parts; deltaLoop: where the
\* goroutine deltaLoop is, about to poll or asleep
VARIABLES objs, metadata, crashed, ret, bufs, content, db, opens, moving,
          deltaLink, deltaLoop

vars == <<objs, metadata, crashed, ret, bufs, content, db, opens, moving,
          deltaLink, deltaLoop>>

\* the item GetItem("/") returns in NewCache
RootItem ==
    [id |-> rootID, name |-> "root", size |-> 0, mode |-> 0, file |-> FALSE,
     parentID |-> "", parentPath |-> << >>,
     children |-> << >>, childrenNil |-> TRUE, subdir |-> 0, cache |-> TRUE]

\* DriveItem.Mode: an item fetched from the server has mode 0
Mode(d) ==
    IF d.mode = 0
    THEN IF ~d.file THEN S_IFDIR + 493 ELSE S_IFREG + 420
    ELSE d.mode

IsDir(d) == HasBit(Mode(d), S_IFDIR)

NLink(d) == IF IsDir(d) THEN Inc32(Inc32(d.subdir)) ELSE 1

Size(d) == IF IsDir(d) THEN DirSize ELSE d.size

\* DriveItem.Path as path components
Path(d) ==
    IF d.parentID = "" /\ d.name = "root" THEN << >>
    ELSE Append(d.parentPath, d.name)

\* NewDriveItem; k is the heap index the new object gets, heap the objects
\* and parent the heap index of the parent, or Nil
NewDriveItem(k, name, mode, heap, parent) ==
    [id |-> localID(k), name |-> name, size |-> 0, mode |-> mode,
     file |-> FALSE,
     parentID |-> IF parent # Nil THEN heap[parent].id ELSE "",
     parentPath |-> IF parent # Nil THEN Path(heap[parent]) ELSE << >>,
     children |-> << >>, childrenNil |-> FALSE, subdir |-> 0,
     cache |-> IF parent # Nil THEN heap[parent].cache ELSE FALSE]

\* ------------------------------------------------------------------ Cache
\* A cache value c is [objs, metadata].  An operator that works on the
\* result of a call takes that result as a parameter.

GetID(c, id) == IF id \in DOMAIN c.metadata THEN c.metadata[id] ELSE Nil

InsertID(c, id, k) ==
    [c EXCEPT !.metadata =
        [i \in (DOMAIN c.metadata) \cup {id} |->
            IF i = id THEN k ELSE c.metadata[i]]]

DeleteID(c, id) ==
    [c EXCEPT !.metadata = [i \in (DOMAIN c.metadata) \ {id} |-> c.metadata[i]]]

\* a new object on the heap
Allocate(c, d) == [c EXCEPT !.objs = Append(@, d)]

\* the ids of a children list that GetID finds: deleted ids are skipped
LiveChildren(c, ids) == SelectSeq(ids, LAMBDA i : GetID(c, i) # Nil)

\* the map built from the ids GetID finds: a later child with the same
\* lowercased name replaces an earlier one
ChildrenMap(c, live) ==
    [n \in {ToLower(c.objs[GetID(c, live[j])].name) : j \in 1..Len(live)} |->
        GetID(c, live[Max({j \in 1..Len(live) :
                             ToLower(c.objs[GetID(c, live[j])].name) = n})])]

\* the map built from an initialized children list
CachedChildren(c, ids) == ChildrenMap(c, LiveChildren(c, ids))

\* the object json.Unmarshal allocates for an entry of a fetched listing
FetchedItem(dirID, s) ==
    [id |-> s.id, name |-> s.name, size |-> s.size, mode |-> 0,
     file |-> s.file,
     parentID |-> dirID, parentPath |-> ServerPath(dirID),
     children |-> << >>, childrenNil |-> TRUE, subdir |-> 0, cache |-> FALSE]

\* one round of the loop over fetched.Children: InsertID, append to
\* item.children, item.subdir++ for a directory; k is the parent
StoreChild(c, k, child) ==
    [InsertID(Allocate(c, child), child.id, Len(c.objs) + 1) EXCEPT
        !.objs[k].children = Append(@, child.id),
        !.objs[k].subdir = IF IsDir(child) THEN Inc32(@) ELSE @]

RECURSIVE StoreFetched(_, _, _, _)
\* the loop over fetched.Children
StoreFetched(c, k, dirID, listing) ==
    IF listing = << >> THEN c
    ELSE StoreFetched(StoreChild(c, k, FetchedItem(dirID, Head(listing))),
                      k, dirID, Tail(listing))

\* what GetChildrenID returns, with what is left of the GETs the server
\* answers
Listing(c, kids, err, gets) ==
    [c |-> c, kids |-> kids, err |-> err, gets |-> gets]

NoChildren == [n \in {} |-> Nil]

\* the result map of a fetch: the objects allocated from index first on
FetchedChildren(c, first) ==
    [n \in {ToLower(c.objs[j].name) : j \in first..Len(c.objs)} |->
        Max({j \in first..Len(c.objs) : ToLower(c.objs[j].name) = n})]

\* GetChildrenOf without the test of the Auth
GetChildrenUnauthorized(c, k, id, auth, gets) ==
    IF k = Nil THEN Listing(c, NoChildren, ErrNotInCache, gets)
    ELSE IF ~IsDir(c.objs[k]) THEN Listing(c, NoChildren, NoErr, gets)
    ELSE IF ~c.objs[k].childrenNil
    THEN Listing(c, CachedChildren(c, c.objs[k].children), NoErr, gets)
    ELSE IF gets = 0 THEN Listing(c, NoChildren, ErrRemote, gets)
    ELSE Listing(StoreFetched([c EXCEPT !.objs[k].children = << >>,
                                        !.objs[k].childrenNil = FALSE],
                              k, id, ServerChildren(id)),
                 FetchedChildren(
                     StoreFetched([c EXCEPT !.objs[k].children = << >>,
                                            !.objs[k].childrenNil = FALSE],
                                  k, id, ServerChildren(id)),
                     Len(c.objs) + 1),
                 NoErr, gets - 1)

\* GetChildrenID once the item is looked up; k is the item or Nil
GetChildrenOf(c, k, id, auth, gets) ==
    IF k = Nil THEN Listing(c, NoChildren, ErrNotInCache, gets)
    ELSE IF ~IsDir(c.objs[k]) THEN Listing(c, NoChildren, NoErr, gets)
    ELSE IF ~c.objs[k].childrenNil
    THEN Listing(c, CachedChildren(c, c.objs[k].children), NoErr, gets)
    ELSE IF auth = "" THEN Listing(c, NoChildren, ErrNoAuth, gets)
    ELSE IF gets = 0 THEN Listing(c, NoChildren, ErrRemote, gets)
    ELSE Listing(StoreFetched([c EXCEPT !.objs[k].children = << >>,
                                        !.objs[k].childrenNil = FALSE],
                              k, id, ServerChildren(id)),
                 FetchedChildren(
                     StoreFetched([c EXCEPT !.objs[k].children = << >>,
                                            !.objs[k].childrenNil = FALSE],
                                  k, id, ServerChildren(id)),
                     Len(c.objs) + 1),
                 NoErr, gets - 1)

\* GetChildrenID.  gets is the number of GETs the server still answers.
GetChildrenID(c, id, auth, gets) ==
    GetChildrenOf(c, GetID(c, id), id, auth, gets)

\* what GetPath returns
Found(c, item, err, gets) ==
    [c |-> c, item |-> item, err |-> err, gets |-> gets]

RECURSIVE walk(_, _, _, _, _, _)
RECURSIVE walkStep(_, _, _, _)
\* one round of the loop of GetPath, r being the children of the last item
walkStep(r, split, i, auth) ==
    IF r.err # NoErr THEN Found(r.c, Nil, r.err, r.gets)
    ELSE IF split[i] \notin DOMAIN r.kids
    THEN Found(r.c, Nil, ErrNotExist, r.gets)
    ELSE IF i = Len(split) THEN Found(r.c, r.kids[split[i]], NoErr, r.gets)
    ELSE walk(r.c, r.c.objs[r.kids[split[i]]].id, split, i + 1, auth, r.gets)

\* the loop of GetPath over the components of the path
walk(c, lastID, split, i, auth, gets) ==
    walkStep(GetChildrenID(c, lastID, auth, gets), split, i, auth)

\* GetPath
GetPath(c, path, auth, gets) ==
    IF path = << >> THEN Found(c, GetID(c, rootID), NoErr, gets)
    ELSE walk(c, rootID, LowerPath(path), 1, auth, gets)

\* GetChildrenPath after its GetPath, r being what GetPath returned
ChildrenOfFound(r, auth) ==
    IF r.err # NoErr THEN Listing(r.c, NoChildren, r.err, r.gets)
    ELSE GetChildrenID(r.c, r.c.objs[r.item].id, auth, r.gets)

\* GetChildrenPath
GetChildrenPath(c, path, auth, gets) ==
    ChildrenOfFound(GetPath(c, path, auth, gets), auth)

\* setParent without the append to parent.children
setParentUnlisted(c, k, p) ==
    [c EXCEPT !.objs[p].subdir = IF IsDir(c.objs[k]) THEN Inc32(@) ELSE @,
              !.objs[p].childrenNil = FALSE,
              !.objs[k].parentID = c.objs[p].id]

\* setParent; k is the item, p the parent (heap indices)
setParent(c, k, p) ==
    [c EXCEPT !.objs[p].subdir = IF IsDir(c.objs[k]) THEN Inc32(@) ELSE @,
              !.objs[p].children = Append(@, c.objs[k].id),
              !.objs[p].childrenNil = FALSE,
              !.objs[k].parentID = c.objs[p].id]

\* s without its first element equal to x
RemoveFirst(s, x) ==
    SelectSeq([j \in 1..Len(s) |->
                  IF s[j] = x /\ (\A h \in 1..(j - 1) : s[h] # x)
                  THEN "" ELSE s[j]],
              LAMBDA e : e # "")

\* s with its first element equal to x replaced by y
ReplaceFirst(s, x, y) ==
    [j \in 1..Len(s) |->
        IF s[j] = x /\ (\A h \in 1..(j - 1) : s[h] # x) THEN y ELSE s[j]]

\* a cache, and whether a nil pointer was dereferenced
Done(c, panic) == [c |-> c, panic |-> panic]

\* removeParent of the item k whose parent is p; a nil parent is
\* dereferenced
removeFrom(c, k, p) ==
    IF p = Nil THEN Done(c, TRUE)
    ELSE Done([c EXCEPT !.objs[p].children = RemoveFirst(@, c.objs[k].id),
                        !.objs[p].subdir =
                            IF IsDir(c.objs[k]) THEN Dec32(@) ELSE @],
              FALSE)

\* removeParent
removeParent(c, k) ==
    IF k = Nil THEN Done(c, FALSE)
    ELSE removeFrom(c, k, GetID(c, c.objs[k].parentID))

\* the last statement of DeletePath: item.ID() on a nil item is a nil
\* dereference
DeleteItem(d, item) ==
    IF d.panic \/ item = Nil THEN Done(d.c, TRUE)
    ELSE Done(DeleteID(d.c, d.c.objs[item].id), FALSE)

\* DeletePath after its GetPath: removeParent runs only when the lookup
\* failed
DeleteFound(r) ==
    DeleteItem(IF r.err # NoErr THEN removeParent(r.c, r.item)
               ELSE Done(r.c, FALSE),
               r.item)

\* DeletePath
DeletePath(c, key) == DeleteFound(GetPath(c, LowerPath(key), emptyAuth, 0))

ErrNilParent == "Parent of key was nil!"

\* what InsertPath returns
Inserted(c, err, gets) == [c |-> c, err |-> err, gets |-> gets]

\* InsertPath after its GetPath; r is the parent, k the item
InsertUnder(r, k) ==
    IF r.err # NoErr THEN Inserted(r.c, r.err, r.gets)
    ELSE IF r.item = Nil THEN Inserted(r.c, ErrNilParent, r.gets)
    ELSE Inserted(InsertID(setParent(r.c, k, r.item), r.c.objs[k].id, k),
                  NoErr, r.gets)

\* InsertPath; k is the heap index of the item
InsertPath(c, key, auth, k, gets) ==
    InsertUnder(GetPath(c, Dir(LowerPath(key)), auth, gets), k)

\* what MoveID and MovePath return
Moved(c, err, panic) == [c |-> c, err |-> err, panic |-> panic]

\* MoveID of the item k whose parent is p; a nil parent is dereferenced
MoveUnder(c, k, p, oldID, newID) ==
    IF p = Nil THEN Moved(c, NoErr, TRUE)
    ELSE Moved(DeleteID(InsertID([c EXCEPT
                                    !.objs[p].children =
                                        ReplaceFirst(@, oldID, newID),
                                    !.objs[k].id = newID],
                                 newID, k),
                        oldID),
               NoErr, FALSE)

\* MoveID after its GetID; k is the item or Nil
MoveItem(c, k, oldID, newID) ==
    IF k = Nil THEN Moved(c, ErrMoveID, FALSE)
    ELSE MoveUnder(c, k, GetID(c, c.objs[k].parentID), oldID, newID)

\* MoveID
MoveID(c, oldID, newID) == MoveItem(c, GetID(c, oldID), oldID, newID)

\* MovePath after InsertPath at the new path: a failed insert is followed
\* by an insert at the old path
MoveInserted(i, k, oldPath, auth) ==
    IF i.err # NoErr
    THEN Moved(InsertPath(i.c, oldPath, auth, k, i.gets).c, i.err, FALSE)
    ELSE Moved(i.c, NoErr, FALSE)

\* MovePath after DeletePath
MoveDeleted(d, k, oldPath, newPath, auth, gets) ==
    IF d.panic THEN Moved(d.c, NoErr, TRUE)
    ELSE MoveInserted(InsertPath(d.c, newPath, auth, k, gets), k, oldPath,
                      auth)

\* MovePath after its GetPath
MoveFound(r, oldPath, newPath, auth) ==
    IF r.err # NoErr THEN Moved(r.c, r.err, FALSE)
    ELSE MoveDeleted(DeletePath(r.c, oldPath), r.item, oldPath, newPath,
                     auth, r.gets)

\* MovePath
MovePath(c, oldPath, newPath, auth, gets) ==
    MoveFound(GetPath(c, oldPath, auth, gets), oldPath, newPath, auth)

\* ------------------------------------------------------ DriveItem methods
\* what the PUT of an empty file, and the GetItem after a name conflict,
\* can answer
PutOutcomes == {"ok", "nameAlreadyExists/ok", "nameAlreadyExists/err", "err"}

\* what RemoteID returns, with the number of PUTs sent
Identified(c, id, err, panic, puts) ==
    [c |-> c, id |-> id, err |-> err, panic |-> panic, puts |-> puts]

\* d.cache.MoveID(d.IDInternal, newID) for the item at heap index k: the
\* cache pointer of an item is nil unless the item descends from the root
\* by NewDriveItem
ItemMoveID(c, k, newID) ==
    IF ~c.objs[k].cache THEN Moved(c, NoErr, TRUE)
    ELSE MoveID(c, c.objs[k].id, newID)

\* RemoteID after MoveID to the id the server issued
Promoted(m, id) == Identified(m.c, id, m.err, m.panic, 1)

\* RemoteID after a PUT that failed with nameAlreadyExists; other is what
\* the path of the item resolves to in the cache
Conflict(c, k, other, put) ==
    IF ~c.objs[k].cache \/ other = Nil
    THEN Identified(c, c.objs[k].id, NoErr, TRUE, 1)
    ELSE IF ~isLocalID(c.objs[other].id)
    THEN Identified(c, c.objs[other].id, NoErr, FALSE, 1)
    ELSE IF put = "nameAlreadyExists/ok"
    THEN Promoted(ItemMoveID(c, k, serverID(k)), serverID(k))
    ELSE Identified(c, c.objs[k].id, ErrNameAlreadyExists, FALSE, 1)

\* DriveItem.RemoteID for the item at heap index k
RemoteID(c, k, auth, put) ==
    IF IsDir(c.objs[k]) THEN Identified(c, c.objs[k].id, NoErr, FALSE, 0)
    ELSE IF isLocalID(c.objs[k].id) /\ auth = nilAuth
    THEN Identified(c, c.objs[k].id, NoErr, TRUE, 0)
    ELSE IF ~(isLocalID(c.objs[k].id) /\ auth # "")
    THEN Identified(c, c.objs[k].id, NoErr, FALSE, 0)
    ELSE IF put = "ok"
    THEN Promoted(ItemMoveID(c, k, serverID(k)), serverID(k))
    ELSE IF put = "err"
    THEN Identified(c, c.objs[k].id, ErrRemote, FALSE, 1)
    ELSE Conflict(c, k, GetPath(c, Path(c.objs[k]), emptyAuth, 0).item, put)

\* DriveItem.Chmod for the item at heap index k, whose cache pointer is set
ItemChmod(c, k, perms) ==
    InsertID([c EXCEPT !.objs[k].mode =
                 IF IsDir(c.objs[k]) THEN S_IFDIR + perms
                 ELSE S_IFREG + perms],
             c.objs[k].id, k)

\* DriveItem.Utimens for the item at heap index k, whose cache pointer is
\* set; the times of an item are not part of the model
ItemUtimens(c, k) == InsertID(c, c.objs[k].id, k)

\* ------------------------------------------------- Cache: file content
\* From here on a cache c also carries the map Cache.content (id to
\* DriveItemContent), the content bucket db of the bolt database (id to
\* bytes) and the DriveItemContent objects bufs.

ErrNoMetadata == "Metadata for item \"%s\" not found in cache"

\* what the server answers to the GET of the content of a file
GetOutcomes ==
    {[err |-> ErrRemote, body |-> << >>]}
       \cup {[err |-> NoErr, body |-> b] : b \in {<< >>, <<"x">>}}

\* what GetContentID returns: the buffer or Nil, the error, whether a nil
\* pointer was dereferenced, and the number of GETs of content it sent
Opened(c, buf, err, panic, gets) ==
    [c |-> c, buf |-> buf, err |-> err, panic |-> panic, gets |-> gets]

\* m without the key
Without(m, key) == [i \in (DOMAIN m) \ {key} |-> m[i]]

InsertContentID(c, key, k) ==
    [c EXCEPT !.content =
        [i \in (DOMAIN c.content) \cup {key} |->
            IF i = key THEN k ELSE c.content[i]]]

\* GetContentID, "do we have it on disk?": a DriveItemContent of a copy of
\* the bytes
FromDisk(c, key) ==
    Opened([c EXCEPT !.bufs = Append(@, NewDriveItemContent(c.db[key]))],
           Len(c.bufs) + 1, NoErr, FALSE, 0)

\* GetContentID after RemoteID: the GET of the content
Downloaded(i, get) ==
    IF i.panic THEN Opened(i.c, Nil, NoErr, TRUE, 0)
    ELSE IF i.err # NoErr THEN Opened(i.c, Nil, i.err, FALSE, 0)
    ELSE IF get.err # NoErr THEN Opened(i.c, Nil, get.err, FALSE, 1)
    ELSE Opened([i.c EXCEPT
                    !.bufs = Append(@, NewDriveItemContent(get.body))],
                Len(i.c.bufs) + 1, NoErr, FALSE, 1)

\* GetContentID, "do we have it on the server?"
FromServer(c, key, auth, put, get) ==
    IF GetID(c, key) = Nil THEN Opened(c, Nil, ErrNoMetadata, FALSE, 0)
    ELSE Downloaded(RemoteID(c, GetID(c, key), auth, put), get)

\* GetContentID, the InsertContentID of what was loaded
Kept(o, key) ==
    IF o.buf = Nil THEN o
    ELSE [o EXCEPT !.c = InsertContentID(o.c, key, o.buf)]

\* GetContentID
GetContentID(c, key, auth, put, get) ==
    IF key \in DOMAIN c.content
    THEN Opened(c, c.content[key], NoErr, FALSE, 0)
    ELSE IF key \in DOMAIN c.db THEN Kept(FromDisk(c, key), key)
    ELSE Kept(FromServer(c, key, auth, put, get), key)

\* FlushContentID after its GetContentID, leaving the buffer in the map
FlushedKept(o, key) ==
    IF o.panic \/ o.err # NoErr THEN o
    ELSE [o EXCEPT !.c.db =
             [i \in (DOMAIN o.c.db) \cup {key} |->
                 IF i = key THEN Data(o.c.bufs[o.buf]) ELSE o.c.db[i]]]

\* FlushContentID after its GetContentID
Flushed(o, key) ==
    IF o.panic \/ o.err # NoErr THEN o
    ELSE [o EXCEPT !.c.db =
                      [i \in (DOMAIN o.c.db) \cup {key} |->
                          IF i = key THEN Data(o.c.bufs[o.buf])
                          ELSE o.c.db[i]],
                   !.c.content = Without(o.c.content, key)]

\* FlushContentID; what a request with the nil Auth does lies outside this
\* code, it is answered like any other
FlushContentID(c, key, put, get) ==
    Flushed(GetContentID(c, key, nilAuth, put, get), key)

DeleteContentID(c, key) ==
    [c EXCEPT !.content = Without(c.content, key),
              !.db = Without(c.db, key)]

\* ----------------------------------------------------------- Cache: deltas
\* what pollDeltas returns, with the cache and the deltaLink it leaves
Polled(c, link, cont, err) ==
    [c |-> c, link |-> link, cont |-> cont, err |-> err]

\* applyDelta: a stub, whatever the item says
applyDelta(c, item) == c

RECURSIVE applyDeltas(_, _)
\* pollDeltas, the loop over page.Values
applyDeltas(c, values) ==
    IF values = << >> THEN c
    ELSE applyDeltas(applyDelta(c, Head(values)), Tail(values))

\* pollDeltas storing the deltaLink of a page that carries a nextLink
pollDeltasToEnd(c, link, page) ==
    IF page.err # NoErr THEN Polled(c, link, FALSE, page.err)
    ELSE Polled(applyDeltas(c, page.values),
                TrimPrefix(page.delta, graphURL), page.next # << >>, NoErr)

\* pollDeltas; page is what the GET of the deltaLink answers
pollDeltas(c, link, page) ==
    IF page.err # NoErr THEN Polled(c, link, FALSE, page.err)
    ELSE IF page.next # << >>
    THEN Polled(applyDeltas(c, page.values),
                TrimPrefix(page.next, graphURL), TRUE, NoErr)
    ELSE Polled(applyDeltas(c, page.values),
                TrimPrefix(page.delta, graphURL), FALSE, NoErr)

\* --------------------------------------------------------- FUSE handlers
\* Every handler is a function of the cache and of what the server answers;
\* its result carries the cache it leaves, the status it returns, whether it
\* dereferenced a nil item (panic) and the remote calls it made.

\* ignore: the paths that never exist
IgnoredFiles ==
    {<<"BDMV">>, <<".Trash">>, <<".Trash-1000">>, <<".xdg-volume-info">>,
     <<"autorun.inf">>, <<".localized">>, <<".DS_Store">>, <<"._.">>,
     <<".hidden">>}

ignore(path) == path \in IgnoredFiles

NoAttr == [size |-> 0, nlink |-> 0, mode |-> 0]

\* the result of a handler that made no PATCH, DELETE, POST or PUT call
Quiet(c, status, item) ==
    [c |-> c, status |-> status, panic |-> FALSE, item |-> item,
     attr |-> NoAttr, entries |-> {}, patches |-> << >>, deletes |-> 0,
     posts |-> 0, puts |-> 0]

\* the result of a handler that dereferenced a nil pointer
Panic(c) == [Quiet(c, "PANIC", Nil) EXCEPT !.panic = TRUE]

\* a result, with the number of DELETE, POST or PUT calls made
Deleting(out, n) == [out EXCEPT !.deletes = n]

Posting(out) == [out EXCEPT !.posts = 1]

Putting(out, n) == [out EXCEPT !.puts = n]

\* DriveItem.GetAttr
ItemGetAttr(d) == [size |-> Size(d), nlink |-> NLink(d), mode |-> Mode(d)]

\* FuseFs.GetAttr after its GetPath
AttrOfFound(r) ==
    IF r.err # NoErr \/ r.item = Nil THEN Quiet(r.c, "ENOENT", Nil)
    ELSE [Quiet(r.c, "OK", r.item) EXCEPT
             !.attr = ItemGetAttr(r.c.objs[r.item])]

\* FuseFs.GetAttr
GetAttr(c, name, gets) ==
    IF ignore(name) THEN Quiet(c, "ENOENT", Nil)
    ELSE AttrOfFound(GetPath(c, name, fsAuth, gets))

\* FuseFs.OpenDir after its GetChildrenPath; the entries are the names of
\* the children
EntriesOf(r) ==
    IF r.err # NoErr THEN Quiet(r.c, "EREMOTEIO", Nil)
    ELSE [Quiet(r.c, "OK", Nil) EXCEPT
             !.entries = {r.c.objs[r.kids[n]].name : n \in DOMAIN r.kids}]

\* FuseFs.OpenDir
OpenDir(c, name, gets) == EntriesOf(GetChildrenPath(c, name, fsAuth, gets))

\* FuseFs.Open after its GetPath
OpenFound(r) ==
    IF r.err # NoErr THEN Quiet(r.c, "EREMOTEIO", Nil)
    ELSE Quiet(r.c, "OK", r.item)

\* FuseFs.Open
Open(c, name, gets) == OpenFound(GetPath(c, name, fsAuth, gets))

\* FuseFs.Chmod after its GetPath
ChmodFound(r, mode) ==
    IF r.item = Nil \/ ~r.c.objs[r.item].cache THEN Panic(r.c)
    ELSE Quiet(ItemChmod(r.c, r.item, mode), "OK", r.item)

\* FuseFs.Chmod
Chmod(c, name, mode, gets) ==
    ChmodFound(GetPath(c, name, fsAuth, gets), mode)

\* FuseFs.Create after the GetPath of the parent: the error of InsertPath
\* is logged only
CreateUnder(r, name, mode) ==
    IF r.err # NoErr THEN Quiet(r.c, "EREMOTEIO", Nil)
    ELSE Quiet(InsertPath(Allocate(r.c,
                                   NewDriveItem(Len(r.c.objs) + 1, Base(name),
                                                mode, r.c.objs, r.item)),
                          name, fsAuth, Len(r.c.objs) + 1, r.gets).c,
               "OK", Len(r.c.objs) + 1)

\* FuseFs.Create
Create(c, name, mode, gets) ==
    CreateUnder(GetPath(c, Dir(name), fsAuth, gets), name, mode)

\* FuseFs.Mkdir after its MoveID
MkdirMoved(m, k) ==
    IF m.panic THEN Panic(m.c) ELSE Posting(Quiet(m.c, "OK", k))

\* FuseFs.Mkdir after its Create, without the MoveID
MkdirCreatedUnmoved(cr) ==
    IF cr.status # "OK" THEN Posting(cr)
    ELSE Posting(Quiet([cr.c EXCEPT !.objs[cr.item].id = serverID(cr.item)],
                       "OK", cr.item))

\* FuseFs.Mkdir after its Create: json.Unmarshal gives the item the id of
\* the response, MoveID stores it under that id
MkdirCreated(cr) ==
    IF cr.status # "OK" THEN Posting(cr)
    ELSE MkdirMoved(MoveID([cr.c EXCEPT !.objs[cr.item].id =
                                           serverID(cr.item)],
                           cr.c.objs[cr.item].id, serverID(cr.item)),
                    cr.item)

\* FuseFs.Mkdir; post tells whether the server accepts the POST
Mkdir(c, name, mode, post, gets) ==
    IF ~post THEN Posting(Quiet(c, "EREMOTEIO", Nil))
    ELSE MkdirCreated(Create(c, name, OrBit(mode, S_IFDIR), gets))

\* Rmdir and Unlink after DeletePath; n is the number of DELETEs sent
Removed(d, item, n) ==
    IF d.panic THEN Panic(d.c) ELSE Deleting(Quiet(d.c, "OK", item), n)

\* FuseFs.Rmdir removing the directory whatever the server answers
RmdirAnyway(c, name, del) == Removed(DeletePath(c, name), Nil, 1)

\* FuseFs.Rmdir; del tells whether the server accepts the DELETE
Rmdir(c, name, del) ==
    IF ~del THEN Deleting(Quiet(c, "EREMOTEIO", Nil), 1)
    ELSE Removed(DeletePath(c, name), Nil, 1)

\* FuseFs.Unlink after its GetPath, without the DELETE sent to the server
UnlinkFoundLocally(r, name, del) ==
    IF r.err # NoErr /\ ContainsDoesNotExist(r.err)
    THEN Quiet(r.c, "ENOENT", Nil)
    ELSE IF r.item = Nil THEN Panic(r.c)
    ELSE Removed(DeletePath(r.c, name), r.item, 0)

\* FuseFs.Unlink after its GetPath
UnlinkFound(r, name, del) ==
    IF r.err # NoErr /\ ContainsDoesNotExist(r.err)
    THEN Quiet(r.c, "ENOENT", Nil)
    ELSE IF r.item = Nil THEN Panic(r.c)
    ELSE IF ~isLocalID(r.c.objs[r.item].id) /\ ~del
    THEN Deleting(Quiet(r.c, "EREMOTEIO", r.item), 1)
    ELSE Removed(DeletePath(r.c, name), r.item,
                 IF isLocalID(r.c.objs[r.item].id) THEN 0 ELSE 1)

\* FuseFs.Unlink
Unlink(c, name, del, gets) ==
    UnlinkFound(GetPath(c, name, fsAuth, gets), name, del)

\* what the server answers to a first and to a second PATCH
PatchErrors == {NoErr, ErrResourceModified, ErrRemote}

PatchOutcomes == {<<e1, e2>> : e1 \in PatchErrors, e2 \in PatchErrors}

\* DriveItem.SetName for the item at heap index k
SetName(c, k, name) == [c EXCEPT !.objs[k].name = name]

\* Rename in progress: the result so far (status "" while Rename goes on)
\* and what is left of the GETs the server answers
Stage(out, gets) == [out |-> out, gets |-> gets]

\* Rename after the RemoteID of the item
RenameIdentified(i, k, gets) ==
    Stage(Putting(IF i.panic THEN Panic(i.c)
                  ELSE IF isLocalID(i.id) \/ i.err # NoErr
                  THEN Quiet(i.c, "EBADF", k)
                  ELSE Quiet(i.c, "", k),
                  i.puts),
          gets)

\* Rename after the GetPath of the old path: a nil item is dereferenced
RenameFound(r, put) ==
    IF r.item = Nil THEN Stage(Panic(r.c), r.gets)
    ELSE RenameIdentified(RemoteID(r.c, r.item, fsAuth, put), r.item, r.gets)

\* Rename up to the RemoteID of the item being renamed
RenameItem(c, oldName, gets, put) ==
    RenameFound(GetPath(c, oldName, fsAuth, gets), put)

\* Rename from the test of the base names to the local SetName
RenameNamed(s, oldName, newName) ==
    IF Base(oldName) # Base(newName)
    THEN Stage([s.out EXCEPT !.c = SetName(@, s.out.item, Base(newName))],
               s.gets)
    ELSE s

\* Rename after the RemoteID of the new parent
RenameParentIdentified(s, i, gets, oldName, newName) ==
    IF i.panic THEN Stage(Putting(Panic(i.c), s.out.puts + i.puts), gets)
    ELSE IF isLocalID(i.id) \/ i.err # NoErr
    THEN Stage([s.out EXCEPT !.c = i.c, !.status = "EBADF",
                             !.puts = @ + i.puts],
               gets)
    ELSE RenameNamed(Stage([s.out EXCEPT !.c = i.c, !.puts = @ + i.puts],
                           gets),
                     oldName, newName)

\* Rename after the GetPath of the new parent: a nil parent is dereferenced
RenameParentFound(s, np, oldName, newName, put) ==
    IF np.err # NoErr
    THEN Stage([s.out EXCEPT !.c = np.c, !.status = "EREMOTEIO"], np.gets)
    ELSE IF np.item = Nil THEN Stage(Putting(Panic(np.c), s.out.puts), np.gets)
    ELSE RenameParentIdentified(s, RemoteID(np.c, np.item, fsAuth, put),
                                np.gets, oldName, newName)

\* Rename from the lookup of the new parent to the local SetName
RenameParent(s, oldName, newName, put) ==
    IF s.out.status # "" THEN s
    ELSE IF Dir(oldName) = Dir(newName) THEN RenameNamed(s, oldName, newName)
    ELSE RenameParentFound(s,
                           GetPath(s.out.c, Dir(newName), fsAuth, s.gets),
                           oldName, newName, put)

\* the answers to the PATCH calls that are sent: the second is sent when
\* the first failed with resourceModified
Sent(patch) ==
    IF patch[1] # NoErr /\ patch[1] = ErrResourceModified THEN patch
    ELSE <<patch[1]>>

\* Rename after MovePath
RenameMoved(out, m, sent) ==
    IF m.panic THEN [Panic(m.c) EXCEPT !.puts = out.puts, !.patches = sent]
    ELSE [out EXCEPT !.c = m.c, !.patches = sent,
                     !.status = IF m.err # NoErr THEN "EIO" ELSE "OK"]

\* Rename from the PATCH to the end; patch is what the server answers to
\* the first and to the second PATCH
RenamePatch(s, oldName, newName, patch) ==
    IF s.out.status # "" THEN s.out
    ELSE IF Len(Sent(patch)) = 2 /\ patch[2] # NoErr
    THEN [s.out EXCEPT !.c = SetName(@, s.out.item, Base(oldName)),
                       !.status = "EREMOTEIO", !.patches = Sent(patch)]
    ELSE RenameMoved(s.out,
                     MovePath(s.out.c, oldName, newName, fsAuth, s.gets),
                     Sent(patch))

\* FuseFs.Rename
Rename(c, oldName, newName, gets, put1, put2, patch) ==
    RenamePatch(RenameParent(RenameItem(c, oldName, gets, put1),
                             oldName, newName, put2),
                oldName, newName, patch)

\* ------------------------------------------------------------- StatFs
\* A uint64 is held as its four 16-bit limbs, the lowest first.
Limb == 65536

FromInt(n) == <<n % Limb, n \div Limb, 0, 0>>

MaxUint64 == <<Limb - 1, Limb - 1, Limb - 1, Limb - 1>>

\* the borrow into limb i of a - b
RECURSIVE Borrow(_, _, _)
Borrow(a, b, i) ==
    IF i = 1 THEN 0
    ELSE IF a[i - 1] - b[i - 1] - Borrow(a, b, i - 1) < 0 THEN 1 ELSE 0

\* a - b in uint64: the borrow out of the highest limb is dropped
Sub64(a, b) ==
    [i \in 1..4 |-> (a[i] - b[i] - Borrow(a, b, i) + Limb) % Limb]

\* a / 4096 in uint64
Div4096(a) ==
    [i \in 1..4 |->
        (a[i] \div 4096) + (IF i < 4 THEN (a[i + 1] % 4096) * 16 ELSE 0)]

\* a <= b in uint64
Leq64(a, b) ==
    \/ a = b
    \/ \E i \in 1..4 : /\ a[i] < b[i]
                       /\ \A j \in (i + 1)..4 : a[j] = b[j]

\* the DriveQuota of a Drive that json.Unmarshal has left untouched
NoQuota == [total |-> FromInt(0), remaining |-> FromInt(0),
            fileCount |-> FromInt(0)]

blkSize == 4096

\* FuseFs.StatFs once the Drive is unmarshalled
StatfsOut(quota) ==
    [Bsize |-> blkSize,
     Blocks |-> Div4096(quota.total),
     Bfree |-> Div4096(quota.remaining),
     Bavail |-> Div4096(quota.remaining),
     Files |-> FromInt(100000),
     Ffree |-> Sub64(FromInt(100000), quota.fileCount),
     NameLen |-> 260]

\* FuseFs.StatFs; get tells whether the GET of /me/drive is answered, and
\* the error of a GET that is not is logged only
StatFs(quota, get) == StatfsOut(IF get THEN quota ELSE NoQuota)

\* ------------------------------------------------------------ the system
\* the directories the server holds at mount time
ServerDirs == {rootID, "srv-1"}

cache == [objs |-> objs, metadata |-> metadata]

\* how many GETs of a children listing the server answers before it fails;
\* nothing is fetched once every directory in the cache is enumerated
GetsChoices ==
    IF \E id \in DOMAIN metadata :
          IsDir(objs[metadata[id]]) /\ objs[metadata[id]].childrenNil
    THEN 0..Cardinality(ServerDirs)
    ELSE {0}

\* RemoteID sends a PUT for a file with a local id
NeedsPut(c, k) == k # Nil /\ ~IsDir(c.objs[k]) /\ isLocalID(c.objs[k].id)

\* the answers to draw for the PUT of the item, r being what the old path
\* resolves to
ItemPuts(r) == IF NeedsPut(r.c, r.item) THEN PutOutcomes ELSE {"ok"}

\* the answers to draw for the PUT of the new parent, s being the Rename
\* after RenameItem
ParentPuts(s, oldName, newName) ==
    IF /\ s.out.status = ""
       /\ Dir(oldName) # Dir(newName)
       /\ ItemPuts(GetPath(s.out.c, Dir(newName), fsAuth, s.gets))
             = PutOutcomes
    THEN PutOutcomes ELSE {"ok"}

\* the answers to draw for the PATCH, s being the Rename after RenameParent
Patches(s) ==
    IF s.out.status = "" THEN PatchOutcomes ELSE {<<NoErr, NoErr>>}

\* what GetPath returned, as the result of a call
AsCall(r) == Quiet(r.c, IF r.err = NoErr THEN "OK" ELSE r.err, r.item)

\* the goroutines that call GetContentID
Threads == {1, 2}

\* no call of GetContentID in progress, and no buffer held
Idle == [pc |-> "idle", key |-> "", buf |-> Nil]

\* no call of MoveID in progress
NotMoving == [pc |-> "idle", k |-> Nil, item |-> Nil, oldID |-> "",
              newID |-> "", path |-> << >>, found |-> FALSE, read |-> << >>]

NoCall == [op |-> "", path |-> << >>, path2 |-> << >>, status |-> "OK",
           item |-> Nil, attr |-> NoAttr, entries |-> {}, patches |-> << >>,
           deletes |-> 0, posts |-> 0, puts |-> 0]

\* NewFS / NewCache: the cache holds the root item, not yet enumerated
Init ==
    /\ objs = <<RootItem>>
    /\ metadata = [i \in {rootID} |-> 1]
    /\ crashed = FALSE
    /\ ret = NoCall
    /\ bufs = << >>
    /\ content = << >>
    /\ db = << >>
    /\ opens = [t \in Threads |-> Idle]
    /\ moving = NotMoving
    /\ deltaLink = <<firstDelta>>
    /\ deltaLoop = "poll"

\* The heap after a handler has returned: an item that is neither in the
\* map nor held by the handler in progress (moving.k) is garbage
Collected == [RootItem EXCEPT !.id = "", !.name = ""]

Live(c) == {c.metadata[id] : id \in DOMAIN c.metadata}

Heap(c) == [k \in 1..Len(c.objs) |->
               IF k \in Live(c) \cup {moving.k} THEN c.objs[k]
               ELSE Collected]

\* The handler op, called with path (and path2), ends with result out.  A
\* nil dereference ends the process, and no cache is left.  log tells
\* whether the call is observed: the result of an observed call is recorded
\* in ret and the run ends there, the same call taken unobserved goes on.
Return(op, path, path2, out, log) ==
    /\ ~crashed
    /\ ret = NoCall
    /\ Len(out.c.objs) <= MaxItems
    /\ \A k \in 1..Len(out.c.objs) :
          Len(out.c.objs[k].children) <= MaxChildren
    /\ objs' = IF out.panic THEN << >> ELSE Heap(out.c)
    /\ metadata' = IF out.panic THEN << >> ELSE out.c.metadata
    /\ crashed' = out.panic
    /\ UNCHANGED <<bufs, content, db, opens, moving, deltaLink, deltaLoop>>
    /\ ret' = IF ~log THEN NoCall
              ELSE IF out.panic
              THEN [NoCall EXCEPT !.op = op, !.path = path, !.path2 = path2,
                                  !.status = "PANIC"]
              ELSE [op |-> op, path |-> path, path2 |-> path2,
                    status |-> out.status, item |-> out.item,
                    attr |-> out.attr, entries |-> out.entries,
                    patches |-> out.patches, deletes |-> out.deletes,
                    posts |-> out.posts, puts |-> out.puts]

\* the paths a handler is called with; an observed call is also made with
\* the paths desktop environments probe
Called(log) == IF log THEN Paths \cup IgnoredFiles ELSE Paths

\* A method of the DriveItemContent k, called with offset off and argument
\* arg, has returned r; its result is recorded in ret.  An out-of-range
\* slice expression ends the process.
Returned(op, k, off, arg, r) ==
    /\ ~crashed
    /\ Len(r.b.arr) <= MaxLen
    /\ bufs' = [bufs EXCEPT ![k] = r.b]
    /\ crashed' = r.panic
    /\ ret' = [op |-> op, buf |-> k, off |-> off, arg |-> arg, n |-> r.n,
               read |-> r.data, status |-> IF r.panic THEN "PANIC" ELSE "OK"]
    /\ UNCHANGED <<objs, metadata, content, db, opens, moving, deltaLink,
                   deltaLoop>>

DoRead(k, Lens, Offs) ==
    \E n \in Lens, off \in Offs :
        Returned("Read", k, off, n, Read(bufs[k], n, off))

DoWrite(k, Datas, Offs) ==
    \E data \in Datas, off \in Offs :
        Returned("Write", k, off, data, Write(bufs[k], data, off))

DoTruncate(k, Sizes) ==
    \E size \in Sizes :
        Returned("Truncate", k, 0, size, Truncate(bufs[k], size))

\* one DriveItemContent, made of any content, and the calls of its methods
InitBuffer ==
    /\ objs = <<RootItem>>
    /\ metadata = [i \in {rootID} |-> 1]
    /\ crashed = FALSE
    /\ ret = NoCall
    /\ \E contents \in Contents : bufs = <<NewDriveItemContent(contents)>>
    /\ content = << >>
    /\ db = << >>
    /\ opens = [t \in Threads |-> Idle]
    /\ moving = NotMoving
    /\ deltaLink = <<firstDelta>>
    /\ deltaLoop = "poll"

SpecBuffer ==
    InitBuffer /\ [][\/ DoRead(1, 0..(MaxLen + 1), 0..MaxLen)
                     \/ DoWrite(1, Contents, 0..MaxLen)
                     \/ DoTruncate(1, 0..MaxLen)]_vars

\* the Cache with the content it holds
store == [objs |-> objs, metadata |-> metadata, bufs |-> bufs,
          content |-> content, db |-> db]

\* number of DriveItemContent objects ever allocated
MaxBufs == 3

\* the ids GetContentID is called with: the ids of the files of the graph
OpenKeys == {id \in DOMAIN metadata : ~IsDir(objs[metadata[id]])}

\* The buffers after a step: a buffer that is neither in the map nor held
\* by a goroutine is garbage
InUse(c, held) ==
    {c.content[id] : id \in DOMAIN c.content}
       \cup {held[t].buf : t \in Threads}

\* A step on the content has left the cache c and the calls held.  A nil
\* dereference ends the process, and nothing is left.
Left(c, held, panic) ==
    /\ ~crashed
    /\ ret = NoCall
    /\ Len(c.bufs) <= MaxBufs
    /\ objs' = IF panic THEN << >> ELSE Heap(c)
    /\ metadata' = IF panic THEN << >> ELSE c.metadata
    /\ bufs' = IF panic THEN << >>
               ELSE [k \in 1..Len(c.bufs) |->
                        IF k \in InUse(c, held) THEN c.bufs[k]
                        ELSE NewDriveItemContent(<< >>)]
    /\ content' = IF panic THEN << >> ELSE c.content
    /\ db' = IF panic THEN << >> ELSE c.db
    /\ opens' = IF panic THEN [t \in Threads |-> Idle] ELSE held
    /\ crashed' = panic
    /\ moving' = moving
    /\ UNCHANGED <<deltaLink, deltaLoop>>

\* GetContentID runs in steps, one for each access to the map, to the
\* database and to the server; t is the goroutine.  First step: Load from
\* the map Cache.content
OpenLoad(t) ==
    \E key \in OpenKeys :
        /\ opens[t].pc = "idle"
        /\ ret' = ret
        /\ Left(store,
                [opens EXCEPT ![t] =
                    IF key \in DOMAIN content
                    THEN [pc |-> "open", key |-> key, buf |-> content[key]]
                    ELSE [pc |-> "disk", key |-> key, buf |-> Nil]],
                FALSE)

\* second step: the transaction on the database
OpenDisk(t) ==
    /\ opens[t].pc = "disk"
    /\ ret' = ret
    /\ IF opens[t].key \in DOMAIN db
       THEN Left(FromDisk(store, opens[t].key).c,
                 [opens EXCEPT ![t].pc = "insert", ![t].buf = Len(bufs) + 1],
                 FALSE)
       ELSE Left(store, [opens EXCEPT ![t].pc = "server"], FALSE)

\* third step, o being what GetID, RemoteID and the GET gave
OpenFetched(t, o) ==
    /\ ret' = ret
    /\ Left(o.c,
            IF o.buf = Nil THEN [opens EXCEPT ![t] = Idle]
            ELSE [opens EXCEPT ![t].pc = "insert", ![t].buf = o.buf],
            o.panic)

OpenServer(t) ==
    /\ opens[t].pc = "server"
    /\ \E put \in IF NeedsPut(store, GetID(store, opens[t].key))
                   THEN PutOutcomes ELSE {"ok"},
          get \in GetOutcomes :
           OpenFetched(t, FromServer(store, opens[t].key, fsAuth, put, get))

\* last step: InsertContentID; the caller now holds the buffer
OpenInsert(t) ==
    /\ opens[t].pc = "insert"
    /\ ret' = ret
    /\ Left(InsertContentID(store, opens[t].key, opens[t].buf),
            [opens EXCEPT ![t].pc = "open"], FALSE)

\* the holder of a buffer writes through it
WriteOpen(t) ==
    /\ opens[t].pc = "open"
    /\ ret' = ret
    /\ Left([store EXCEPT !.bufs[opens[t].buf] = Write(@, <<"y">>, 0).b],
            opens, FALSE)

\* the holder of a buffer lets go of it
Close(t) ==
    /\ opens[t].pc = "open"
    /\ ret' = ret
    /\ Left(store, [opens EXCEPT ![t] = Idle], FALSE)

\* FlushContentID has returned o
FlushReturn(key, o, log) ==
    /\ Left(o.c, opens, o.panic)
    /\ ret' = IF ~log THEN NoCall
              ELSE [NoCall EXCEPT !.op = "FlushContentID", !.path = <<key>>,
                                  !.status = IF o.panic THEN "PANIC" ELSE "OK"]

\* FlushContentID is called when the file descriptors of a file are
\* closed: on an id that has been opened and that no goroutine holds.  Its
\* GetContentID finds the id in the map or in the database and reaches no
\* request, so one answer of the server stands for all
DoFlush(log) ==
    \E key \in (DOMAIN content) \cup (DOMAIN db) :
        /\ \A t \in Threads : opens[t].key # key
        /\ FlushReturn(key,
                       FlushContentID(store, key, "ok",
                                      [err |-> ErrRemote, body |-> << >>]),
                       log)

\* FuseFs.Create of the one file whose content is followed
CreateFile ==
    /\ OpenKeys = {}
    /\ \E mode \in CreateModes :
          Return("Create", <<"a">>, << >>, Create(cache, <<"a">>, mode, 0),
                 FALSE)

\* The kernel looks a path up before it dispatches on it: unlink is sent
\* for what resolves to a file, rmdir for what resolves to a directory.  r is
\* the result of the lookup.
KnownAs(r, dir) == r.item # Nil => (IsDir(r.c.objs[r.item]) <=> dir)

DoGetAttr(log) ==
    \E name \in Paths \cup {<< >>}, gets \in GetsChoices :
        Return("GetAttr", name, << >>, GetAttr(cache, name, gets), log)

DoOpenDir(log) ==
    \E name \in Paths \cup {<< >>}, gets \in GetsChoices :
        Return("OpenDir", name, << >>, OpenDir(cache, name, gets), log)

DoCreate(log) ==
    \E name \in Called(log), mode \in CreateModes, gets \in GetsChoices :
        Return("Create", name, << >>, Create(cache, name, mode, gets), log)

DoMkdir(log) ==
    \E name \in Paths, mode \in MkdirModes, post \in BOOLEAN,
       gets \in GetsChoices :
        Return("Mkdir", name, << >>, Mkdir(cache, name, mode, post, gets),
               log)

DoRmdir(log) ==
    \E name \in Paths, del \in BOOLEAN :
        /\ KnownAs(GetPath(cache, name, emptyAuth, 0), TRUE)
        /\ Return("Rmdir", name, << >>, Rmdir(cache, name, del), log)

DoUnlink(log) ==
    \E name \in Paths, del \in BOOLEAN, gets \in GetsChoices :
        /\ KnownAs(GetPath(cache, name, fsAuth, gets), FALSE)
        /\ Return("Unlink", name, << >>, Unlink(cache, name, del, gets), log)

\* the values of a delta page: none, or one item of the graph marked deleted
DeltaValues ==
    {<< >>} \cup {<<[id |-> id, deleted |-> TRUE]>> :
                     id \in (DOMAIN metadata) \ {rootID}}

\* the links of a delta page: a page may carry a nextLink, a deltaLink, both
\* or, when its body is not what was expected, none
NextLinks == {<< >>, <<graphURL, "/me/drive/root/delta?token=next">>}

DeltaLinks == {<< >>, <<graphURL, "/me/drive/root/delta?token=delta">>}

\* what the GET of the deltaLink answers
DeltaPages ==
    {[err |-> ErrRemote, next |-> << >>, delta |-> << >>, values |-> << >>]}
       \cup {[err |-> NoErr, next |-> n, delta |-> d, values |-> v] :
                n \in NextLinks, d \in DeltaLinks, v \in DeltaValues}

\* deltaLoop, one round of its inner loop: pollDeltas has returned p for the
\* page; the loop goes on when cont is set and no error is returned
DeltaPolled(page, p, log) ==
    /\ ~crashed
    /\ ret = NoCall
    /\ objs' = p.c.objs
    /\ metadata' = p.c.metadata
    /\ deltaLink' = p.link
    /\ deltaLoop' = IF p.err = NoErr /\ p.cont THEN "poll" ELSE "sleep"
    /\ ret' = IF ~log THEN NoCall
              ELSE [op |-> "pollDeltas", path |-> << >>, page |-> page,
                    cont |-> p.cont,
                    status |-> IF p.err = NoErr THEN "OK" ELSE p.err]
    /\ UNCHANGED <<crashed, bufs, content, db, opens, moving>>

DoPollDeltas(log) ==
    \E page \in DeltaPages :
        /\ deltaLoop = "poll"
        /\ DeltaPolled(page, pollDeltas(cache, deltaLink, page), log)

\* deltaLoop: time.Sleep has returned
DeltaSleep ==
    /\ ~crashed
    /\ ret = NoCall
    /\ deltaLoop = "sleep"
    /\ deltaLoop' = "poll"
    /\ UNCHANGED <<objs, metadata, crashed, ret, bufs, content, db, opens,
                   moving, deltaLink>>

\* Cache.GetPath called with the empty Auth, as DeletePath and RemoteID call
\* it; what it returns is recorded as the result of a call
DoGetPath ==
    \E name \in Paths \cup {<< >>}, gets \in GetsChoices :
        Return("GetPath", name, << >>,
               AsCall(GetPath(cache, name, emptyAuth, gets)), TRUE)

\* the permission bits chmod is called with
ChmodModes == {384, 511}

\* chmod is sent for what the lookup of the kernel has found
DoChmod(log) ==
    \E name \in Paths, mode \in ChmodModes, gets \in GetsChoices :
        /\ GetPath(cache, name, fsAuth, gets).item # Nil
        /\ Return("Chmod", name, << >>, Chmod(cache, name, mode, gets), log)

\* the kernel sends no rename of a path to itself; the PUT and PATCH
\* answers are drawn only when the call is reached
DoRename(log) ==
    \E oldName \in Paths, gets \in GetsChoices :
     \E newName \in NewPaths \ {oldName},
        put1 \in ItemPuts(GetPath(cache, oldName, fsAuth, gets)) :
      \E put2 \in ParentPuts(RenameItem(cache, oldName, gets, put1),
                             oldName, newName) :
       \E patch \in Patches(RenameParent(
                                RenameItem(cache, oldName, gets, put1),
                                oldName, newName, put2)) :
          Return("Rename", oldName, newName,
                 Rename(cache, oldName, newName, gets, put1, put2, patch),
                 log)

DoOpen ==
    \E name \in Paths, gets \in GetsChoices :
        Return("Open", name, << >>, Open(cache, name, gets), TRUE)

\* FuseFs.Chmod called with a path that does not resolve
DoChmodUnknown ==
    \E name \in Paths, mode \in ChmodModes, gets \in GetsChoices :
        /\ GetPath(cache, name, fsAuth, gets).item = Nil
        /\ Return("Chmod", name, << >>, Chmod(cache, name, mode, gets), TRUE)

\* the handlers other than Rename
Handlers(log) ==
    \/ DoGetAttr(log)
    \/ DoOpenDir(log)
    \/ DoCreate(log)
    \/ DoMkdir(log)
    \/ DoRmdir(log)
    \/ DoUnlink(log)

Next == Handlers(FALSE) \/ DoRename(FALSE)

Spec == Init /\ [][Next]_vars

\* the same system, with a Rename observed
SpecRename == Init /\ [][Next \/ DoRename(TRUE)]_vars

\* the ids MoveID is called with: the ids of the graph, an id the server
\* issues and an id that is not in the graph
MoveIDs == (DOMAIN metadata) \cup {serverID(MaxItems + 1), localID(MaxItems + 1)}

\* the result of MoveID as the result of a call
MoveIDReturn(m, newID) ==
    IF m.panic THEN Panic(m.c)
    ELSE Quiet(m.c, IF m.err = NoErr THEN "OK" ELSE m.err, GetID(m.c, newID))

\* Cache.MoveID called on the cache a handler left, observed
DoMoveID ==
    \E oldID \in MoveIDs, newID \in MoveIDs :
        Return("MoveID", <<oldID>>, <<newID>>,
               MoveIDReturn(MoveID(cache, oldID, newID), newID), TRUE)

SpecMoveID == Init /\ [][Next \/ DoMoveID]_vars

\* MoveID runs in steps, one for each access to the map and to the items,
\* while other goroutines read the graph.  A step has left the cache c and
\* the call mv; a nil dereference ends the process.
Stepped(c, mv, panic) ==
    /\ ~crashed
    /\ ret = NoCall
    /\ Len(c.objs) <= MaxItems
    /\ \A k \in 1..Len(c.objs) : Len(c.objs[k].children) <= MaxChildren
    /\ objs' = IF panic THEN << >> ELSE c.objs
    /\ metadata' = IF panic THEN << >> ELSE c.metadata
    /\ crashed' = panic
    /\ moving' = IF panic THEN NotMoving ELSE mv
    /\ UNCHANGED <<ret, bufs, content, db, opens, deltaLink, deltaLoop>>

\* the caller holds the item k and is about to give it the id newID; found
\* tells whether the path of the item resolves to it
Begun(c, k, newID, pc) ==
    [pc |-> pc, k |-> k, item |-> Nil, oldID |-> c.objs[k].id,
     newID |-> newID, path |-> Path(c.objs[k]),
     found |-> GetPath(c, Path(c.objs[k]), emptyAuth, 0).item = k,
     read |-> << >>]

\* DriveItem.RemoteID of a file with a local id, whose PUT the server has
\* answered: it calls MoveID
PromoteStart ==
    \E id \in DOMAIN metadata :
        /\ moving.pc = "idle"
        /\ ~IsDir(objs[metadata[id]])
        /\ isLocalID(objs[metadata[id]].id)
        /\ objs[metadata[id]].cache
        /\ Stepped(cache,
                   Begun(cache, metadata[id], serverID(metadata[id]), "get"),
                   FALSE)

\* FuseFs.Mkdir after its Create
MkdirBegun(cr) ==
    IF cr.status # "OK" THEN Stepped(cr.c, NotMoving, FALSE)
    ELSE Stepped(cr.c, Begun(cr.c, cr.item, serverID(cr.item), "unmarshal"),
                 FALSE)

\* FuseFs.Mkdir whose POST the server has accepted, up to its Create
MkdirStart ==
    \E name \in Paths, mode \in MkdirModes, gets \in GetsChoices :
        /\ moving.pc = "idle"
        /\ MkdirBegun(Create(cache, name, OrBit(mode, S_IFDIR), gets))

\* FuseFs.Mkdir: json.Unmarshal gives the item the id of the response
MoveUnmarshal ==
    /\ moving.pc = "unmarshal"
    /\ Stepped([cache EXCEPT !.objs[moving.k].id = moving.newID],
               [moving EXCEPT !.pc = "get"], FALSE)

\* MoveID: item := c.GetID(oldID)
MoveGet ==
    /\ moving.pc = "get"
    /\ IF GetID(cache, moving.oldID) = Nil
       THEN Stepped(cache, NotMoving, FALSE)
       ELSE Stepped(cache,
                    [moving EXCEPT !.pc = "parent",
                                   !.item = GetID(cache, moving.oldID)],
                    FALSE)

\* MoveID: the child is renamed under the parent p
MoveChild(p) ==
    IF p = Nil THEN Stepped(cache, moving, TRUE)
    ELSE Stepped([cache EXCEPT !.objs[p].children =
                                  ReplaceFirst(@, moving.oldID, moving.newID)],
                 [moving EXCEPT !.pc = "rename"], FALSE)

MoveParent ==
    /\ moving.pc = "parent"
    /\ MoveChild(GetID(cache, objs[moving.item].parentID))

\* MoveID: item.IDInternal = newID
MoveRename ==
    /\ moving.pc = "rename"
    /\ Stepped([cache EXCEPT !.objs[moving.item].id = moving.newID],
               [moving EXCEPT !.pc = "insert"], FALSE)

\* MoveID: c.InsertID(newID, item)
MoveInsert ==
    /\ moving.pc = "insert"
    /\ Stepped(InsertID(cache, moving.newID, moving.item),
               [moving EXCEPT !.pc = "delete"], FALSE)

\* MoveID: c.DeleteID(oldID), and the return
MoveDelete ==
    /\ moving.pc = "delete"
    /\ Stepped(DeleteID(cache, moving.oldID), NotMoving, FALSE)

\* GetChildrenID runs in two steps while another resolver runs: up to the
\* GET of the children, sent because item.children is nil, and from the
\* answer on
EnumerateStart ==
    \E id \in DOMAIN metadata :
        /\ moving.pc = "idle"
        /\ IsDir(objs[metadata[id]])
        /\ objs[metadata[id]].childrenNil
        /\ Stepped(cache,
                   [NotMoving EXCEPT !.pc = "fetch", !.k = metadata[id],
                                     !.oldID = id],
                   FALSE)

\* the GET is answered or not: item.children = make([]string, 0) and the
\* loop over fetched.Children
EnumerateStore ==
    \E get \in BOOLEAN :
        /\ moving.pc = "fetch"
        /\ ~crashed
        /\ IF ~get THEN Stepped(cache, NotMoving, FALSE)
           ELSE Stepped(StoreFetched([cache EXCEPT
                                         !.objs[moving.k].children = << >>,
                                         !.objs[moving.k].childrenNil = FALSE],
                                     moving.k, moving.oldID,
                                     ServerChildren(moving.oldID)),
                        NotMoving, FALSE)

\* FuseFs.Create runs in two steps while another Create runs: up to the
\* read of parent.children in the append of setParent, and from the write
\* of the appended list on.  r is what the GetPath of InsertPath returned,
\* k the new item.
CreateRead(r, k) ==
    /\ r.err = NoErr
    /\ r.item # Nil
    /\ Stepped([r.c EXCEPT !.objs[r.item].subdir =
                              IF IsDir(r.c.objs[k]) THEN Inc32(@) ELSE @],
               [NotMoving EXCEPT !.pc = "append", !.k = k, !.item = r.item,
                                 !.oldID = r.c.objs[k].id,
                                 !.read = r.c.objs[r.item].children],
               FALSE)

\* FuseFs.Create after the GetPath of the parent, up to the read
CreateAllocated(r, name, mode) ==
    /\ r.err = NoErr
    /\ CreateRead(GetPath(Allocate(r.c,
                                   NewDriveItem(Len(r.c.objs) + 1, Base(name),
                                                mode, r.c.objs, r.item)),
                          Dir(LowerPath(name)), fsAuth, r.gets),
                  Len(r.c.objs) + 1)

CreateStart ==
    \E name \in Paths, mode \in CreateModes, gets \in GetsChoices :
        /\ moving.pc = "idle"
        /\ CreateAllocated(GetPath(cache, Dir(name), fsAuth, gets), name, mode)

\* the rest of setParent and of InsertPath: the list that was read, with the
\* id appended, is stored
CreateAppend ==
    /\ moving.pc = "append"
    /\ ~crashed
    /\ Stepped(InsertID([cache EXCEPT
                            !.objs[moving.item].children =
                                Append(moving.read, moving.oldID),
                            !.objs[moving.item].childrenNil = FALSE,
                            !.objs[moving.k].parentID =
                                cache.objs[moving.item].id],
                         moving.oldID, moving.k),
               NotMoving, FALSE)

\* DriveItem.RemoteID runs in steps while another handler calls RemoteID on
\* the same item.  First step: the item is a file with a local id and the
\* Auth holds a token, and the PUT is sent.
RemoteIDStart ==
    \E id \in DOMAIN metadata :
        /\ moving.pc = "idle"
        /\ ~IsDir(objs[metadata[id]])
        /\ isLocalID(objs[metadata[id]].id)
        /\ Stepped(cache,
                   Begun(cache, metadata[id], serverID(metadata[id]), "put"),
                   FALSE)

\* RemoteID is about to call d.cache.MoveID(d.IDInternal, newID): the id of
\* the item is read now, and a nil cache pointer is dereferenced
RemoteIDMove ==
    IF ~objs[moving.k].cache THEN Stepped(cache, moving, TRUE)
    ELSE Stepped(cache,
                 [moving EXCEPT !.pc = "get", !.oldID = objs[moving.k].id],
                 FALSE)

\* RemoteID after a PUT that failed with nameAlreadyExists; other is what
\* the path of the item resolves to in the cache
RemoteIDConflict(other, put) ==
    IF ~objs[moving.k].cache \/ other = Nil
    THEN Stepped(cache, moving, TRUE)
    ELSE IF ~isLocalID(objs[other].id) THEN Stepped(cache, NotMoving, FALSE)
    ELSE IF put = "nameAlreadyExists/ok" THEN RemoteIDMove
    ELSE Stepped(cache, NotMoving, FALSE)

\* the server has answered the PUT
RemoteIDPut ==
    \E put \in PutOutcomes :
        /\ moving.pc = "put"
        /\ ~crashed
        /\ IF put = "ok" THEN RemoteIDMove
           ELSE IF put = "err" THEN Stepped(cache, NotMoving, FALSE)
           ELSE RemoteIDConflict(
                    GetPath(cache, Path(objs[moving.k]), emptyAuth, 0).item,
                    put)

\* another handler that holds the same item calls RemoteID, which runs
\* between two steps of the first
RemoteIDOther ==
    \E put \in PutOutcomes :
        /\ moving.pc # "idle"
        /\ ~crashed
        /\ Stepped(RemoteID(cache, moving.k, fsAuth, put).c, moving,
                   RemoteID(cache, moving.k, fsAuth, put).panic)

\* FuseFs.Chmod runs in two steps while other handlers run: its GetPath,
\* after which it holds the item, and item.Chmod.  The kernel has looked
\* the path up before.
ChmodStart ==
    \E name \in Paths, gets \in GetsChoices :
        /\ moving.pc = "idle"
        /\ GetPath(cache, name, fsAuth, gets).item # Nil
        /\ Stepped(GetPath(cache, name, fsAuth, gets).c,
                   Begun(GetPath(cache, name, fsAuth, gets).c,
                         GetPath(cache, name, fsAuth, gets).item, "", "chmod"),
                   FALSE)

\* item.Chmod(mode) on the item held
ChmodFinish ==
    \E mode \in ChmodModes :
        /\ moving.pc = "chmod"
        /\ ~crashed
        /\ IF ~objs[moving.k].cache THEN Stepped(cache, NotMoving, TRUE)
           ELSE Stepped(ItemChmod(cache, moving.k, mode), NotMoving, FALSE)

\* item.Utimens(atime, mtime) on the item held
UtimensFinish ==
    /\ moving.pc = "chmod"
    /\ ~crashed
    /\ IF ~objs[moving.k].cache THEN Stepped(cache, NotMoving, TRUE)
       ELSE Stepped(ItemUtimens(cache, moving.k), NotMoving, FALSE)

\* ------------------------------------------------------------ properties
Present(id) == id \in DOMAIN metadata

Item(id) == objs[metadata[id]]

\* the directories of the graph whose children list is initialized
InitializedDirs ==
    {id \in DOMAIN metadata : IsDir(Item(id)) /\ ~Item(id).childrenNil}

\* C1: every item of the graph with a non-empty parent_id has its parent in
\* the graph, and its id is in the parent's children list when that list is
\* initialized
C1_ParentLinked ==
    \A id \in DOMAIN metadata :
        Item(id).parentID # "" =>
            /\ Present(Item(id).parentID)
            /\ ~Item(Item(id).parentID).childrenNil =>
                  id \in Range(Item(Item(id).parentID).children)

\* C2: the children list of every directory whose list is initialized holds
\* exactly the ids of the items of the graph whose parent_id is the
\* directory; an unlinked or removed item is in no children list
C2_ChildrenExact ==
    \A d \in InitializedDirs :
        Range(Item(d).children) =
            {id \in DOMAIN metadata : Item(id).parentID = Item(d).id}

\* the entries of the children list of d that are directories of the graph
ChildDirs(d) ==
    {i \in 1..Len(Item(d).children) :
        Present(Item(d).children[i]) /\ IsDir(Item(Item(d).children[i]))}

\* C3: subdir_count of every directory whose children list is initialized
\* is the number of its children that are directories, and the nlink that
\* get_attr reports is 2 plus that number
C3_SubdirCount ==
    \A d \in InitializedDirs :
        /\ Item(d).subdir = Cardinality(ChildDirs(d))
        /\ ItemGetAttr(Item(d)).nlink = 2 + Cardinality(ChildDirs(d))

\* C4: no directory has two children in the graph whose names are equal
\* under case-insensitive comparison
C4_UniqueNames ==
    \A d \in DOMAIN metadata :
        \A x \in Range(Item(d).children), y \in Range(Item(d).children) :
            (IsDir(Item(d)) /\ Present(x) /\ Present(y) /\ x # y) =>
                ToLower(Item(x).name) # ToLower(Item(y).name)

\* ------------------------------------------------- properties of Rename
\* the cache after the step
cacheNext == [objs |-> objs', metadata |-> metadata']

\* what a path resolves to before the call, the server answering
Before(path) == GetPath(cache, path, fsAuth, Cardinality(ServerDirs))

\* the step is an observed Rename of an item that exists, to a path where
\* no item is
RenameStep ==
    /\ ret'.op = "Rename"
    /\ ret'.status # "PANIC"
    /\ Before(ret'.path).item # Nil
    /\ Before(ret'.path2).item = Nil

\* the item being renamed, before the call
Renamed == Before(ret'.path).c.objs[Before(ret'.path).item]

\* C5: a rename of a file within its directory whose PATCH the server
\* accepts returns OK; afterwards get_attr of the old path is ENOENT and
\* get_attr of the new path succeeds on the same item, with the size it had
C5_RenameWithinDir ==
    [][(/\ RenameStep
        /\ ~IsDir(Renamed)
        /\ Dir(ret'.path) = Dir(ret'.path2)
        /\ ret'.patches = <<NoErr>>)
       => /\ ret'.status = "OK"
          /\ GetAttr(cacheNext, ret'.path, 0).status = "ENOENT"
          /\ GetAttr(cacheNext, ret'.path2, 0).status = "OK"
          /\ GetAttr(cacheNext, ret'.path2, 0).item = ret'.item
          /\ GetAttr(cacheNext, ret'.path2, 0).attr.size = Renamed.size]_vars

\* how often id is in the children list of the directory at path
Listed(c, path, id) ==
    LET r == GetPath(c, path, emptyAuth, 0)
    IN  IF r.item = Nil THEN 0
        ELSE Cardinality({i \in 1..Len(c.objs[r.item].children) :
                             c.objs[r.item].children[i] = id})

C7_RetryFails ==
    [][(/\ RenameStep
        /\ Len(ret'.patches) >= 2
        /\ ret'.patches[1] = ErrResourceModified
        /\ ret'.patches[2] # NoErr)
       => /\ ret'.status = "EREMOTEIO"
          /\ Len(ret'.patches) = 2
          /\ objs'[ret'.item].name = Renamed.name
          /\ GetAttr(cacheNext, ret'.path, 0).item = ret'.item
          /\ GetAttr(cacheNext, ret'.path2, 0).item # ret'.item]_vars

\* C8: when the PATCH of a rename fails with an error other than
\* resourceModified, rename returns EREMOTEIO, and the item keeps the name
\* and the parent it had before the call and resolves at the old path
C8_PatchFails ==
    [][(/\ RenameStep
        /\ ret'.patches = <<ErrRemote>>)
       => /\ ret'.status = "EREMOTEIO"
          /\ objs'[ret'.item].name = Renamed.name
          /\ objs'[ret'.item].parentID = Renamed.parentID
          /\ GetAttr(cacheNext, ret'.path, 0).item = ret'.item
          /\ GetAttr(cacheNext, ret'.path2, 0).item # ret'.item]_vars

\* C9: when the first PATCH of a rename fails with resourceModified and the
\* retry succeeds, rename returns OK and the item resolves at the new path;
\* a rename sends a second PATCH only when the first failed with
\* resourceModified
C9_RetrySucceeds ==
    [][/\ (RenameStep /\ ret'.patches = <<ErrResourceModified, NoErr>>)
          => /\ ret'.status = "OK"
             /\ GetAttr(cacheNext, ret'.path2, 0).item = ret'.item
       /\ (ret'.op = "Rename" /\ Len(ret'.patches) >= 2)
          => ret'.patches[1] = ErrResourceModified]_vars

\* ------------------------------------------------- properties of MoveID
\* C10: MoveID(a, b) for an id a of the graph that has a parent, and an id
\* b that is not in the graph, returns without error; afterwards b maps to
\* the item that a mapped to, a is not in the graph, and the parent's
\* children list holds b where it held a and is otherwise as it was.  MoveID(a, b) for an id a
\* that is not in the graph fails and leaves the graph as it was
C10_MoveID ==
    [][ret'.op = "MoveID" =>
        LET a == ret'.path[1]
            b == ret'.path2[1]
        IN  /\ (Present(a) /\ Item(a).parentID # "" /\ ~Present(b))
               => /\ ret'.status = "OK"
                  /\ b \in DOMAIN metadata'
                  /\ metadata'[b] = metadata[a]
                  /\ a \notin DOMAIN metadata'
                  /\ objs'[metadata[Item(a).parentID]].children =
                        [i \in 1..Len(Item(Item(a).parentID).children) |->
                            IF Item(Item(a).parentID).children[i] = a THEN b
                            ELSE Item(Item(a).parentID).children[i]]
            /\ ~Present(a)
               => /\ ret'.status = ErrMoveID
                  /\ objs' = objs
                  /\ metadata' = metadata]_vars

\* ---------------------------------------------- properties of id promotion
\* The handlers that change the graph run between the calls of MoveID;
\* GetAttr and OpenDir are observed while a call of MoveID is in progress.
SpecPromote ==
    Init /\ [][\/ moving.pc = "idle" /\ Next
               \/ PromoteStart
               \/ MkdirStart
               \/ MoveUnmarshal
               \/ MoveGet
               \/ MoveParent
               \/ MoveRename
               \/ MoveInsert
               \/ MoveDelete
               \/ DoGetAttr(TRUE)
               \/ DoOpenDir(TRUE)]_vars

\* C11: a get_attr of the path of an item that runs while a MoveID of the
\* item is in progress, the one inside mkdir included, finds the item, and
\* the id of the item is a key of the graph that maps to it; an open_dir of
\* its directory lists it
C11_PromotionAtomic ==
    [][/\ (/\ moving.pc # "idle"
           /\ moving.found
           /\ ret'.op = "GetAttr"
           /\ ret'.path = moving.path)
          => /\ ret'.status = "OK"
             /\ ret'.item = moving.k
             /\ GetID(cache, objs[moving.k].id) = moving.k
       /\ (/\ moving.pc # "idle"
           /\ moving.found
           /\ ret'.op = "OpenDir"
           /\ ret'.path = Dir(moving.path))
          => /\ ret'.status = "OK"
             /\ objs[moving.k].name \in ret'.entries]_vars

\* C11, of the map alone: while a MoveID of an item is in progress, the old
\* or the new id is a key of the graph that maps to the item
C11_OldOrNewKey ==
    (moving.pc # "idle" /\ moving.found)
    => \/ GetID(cache, moving.oldID) = moving.k
       \/ GetID(cache, moving.newID) = moving.k

\* ------------------------------------------------- properties of Create
\* the same system, with a Create observed
SpecCreate == Init /\ [][Next \/ DoCreate(TRUE)]_vars

\* what the directory of the observed path resolves to after the call
ParentAfter == GetPath(cacheNext, Dir(ret'.path), fsAuth, 0)

\* an observed Create that returned OK, below what is a directory
CreateStep ==
    /\ ret'.op = "Create"
    /\ ret'.status = "OK"
    /\ ParentAfter.item # Nil
    /\ IsDir(objs'[ParentAfter.item])

\* a is what GetAttr returns for the created item k right after the Create,
\* p is the parent the path resolves to
CreatedThenFound(a, k, p) ==
    /\ a.status = "OK"
    /\ a.item = k
    /\ a.attr.size = 0
    /\ HasBit(a.attr.mode, S_IFREG)
    /\ ~HasBit(a.attr.mode, S_IFDIR)
    /\ isLocalID(objs'[k].id)
    /\ objs'[k].parentID = objs'[p].id

SpecUnlink == Init /\ [][Next \/ DoUnlink(TRUE)]_vars

\* an observed Unlink that returned OK
UnlinkStep == ret'.op = "Unlink" /\ ret'.status = "OK"

\* u is what a second Unlink of the same path returns, a what GetAttr of the
\* path returns
GoneFor(u, a) ==
    /\ u.status = "ENOENT"
    /\ u.c = cacheNext
    /\ a.status = "ENOENT"

\* C13: after a first unlink(p) of a created file has returned OK, a second
\* unlink(p) returns ENOENT and changes nothing, and get_attr(p) returns
\* ENOENT
C13_UnlinkTwice ==
    [][UnlinkStep
       => \A del \in BOOLEAN :
             GoneFor(Unlink(cacheNext, ret'.path, del, 0),
                     GetAttr(cacheNext, ret'.path, 0))]_vars

\* C13 for a graph in which the names of a directory are unique
C13_UnlinkTwiceUnique ==
    [][(UnlinkStep /\ C4_UniqueNames)
       => \A del \in BOOLEAN :
             GoneFor(Unlink(cacheNext, ret'.path, del, 0),
                     GetAttr(cacheNext, ret'.path, 0))]_vars

\* an observed Unlink that found an item, cached before the call, at its path
UnlinkOfItem ==
    /\ ret'.op = "Unlink"
    /\ ret'.status # "PANIC"
    /\ ret'.item \in 1..Len(objs)

\* C14: unlink sends a DELETE if and only if the id of the item is remote:
\* the unlink of a file with a local- id makes no remote call, returns OK and
\* removes the id from the graph; the unlink of a file with a remote id
\* sends exactly one DELETE and no other call, and removes the id from the
\* graph only when the DELETE succeeded: when it failed the call returns
\* EREMOTEIO and the graph is as it was
C14_DeleteIffRemote ==
    [][UnlinkOfItem
       => /\ ret'.puts = 0 /\ ret'.posts = 0 /\ ret'.patches = << >>
          /\ IF objs[ret'.item].id \in LocalIDs
             THEN /\ ret'.deletes = 0
                  /\ ret'.status = "OK"
                  /\ Unlink(cache, ret'.path, FALSE, 0).status = "OK"
                  /\ objs[ret'.item].id \notin DOMAIN metadata'
             ELSE /\ ret'.deletes = 1
                  /\ \/ /\ ret'.status = "OK"
                        /\ objs[ret'.item].id \notin DOMAIN metadata'
                     \/ /\ ret'.status = "EREMOTEIO"
                        /\ metadata' = metadata
                        /\ objs' = objs]_vars

\* a file with a remote id was unlinked, with one DELETE
C14_Witness ==
    /\ ret.op = "Unlink"
    /\ ret.status = "OK"
    /\ ret.deletes = 1
    /\ ret.item # Nil

\* ------------------------------------------ properties of the ignore list
\* C16: a handler called with a path of the ignore list returns ENOENT and
\* leaves the graph as it was
C16_IgnoredUnchanged ==
    [][(ret'.op # "" /\ ignore(ret'.path))
       => /\ ret'.status = "ENOENT"
          /\ metadata' = metadata
          /\ objs' = objs]_vars

\* ------------------------------------------ properties of DriveItemContent
\* C17: for any buffer, any data and any offset off not greater than the
\* size, write(off, data) returns len(data), a following read(off,
\* len(data)) returns exactly data, the bytes before off are unchanged, the
\* size is the maximum of the old size and off + len(data), and the buffer
\* is marked dirty
C17_WriteThenRead ==
    [][(ret'.op = "Write" /\ ret'.off <= bufs[ret'.buf].size)
       => /\ ret'.status = "OK"
          /\ ret'.n = Len(ret'.arg)
          /\ Read(bufs'[ret'.buf], Len(ret'.arg), ret'.off).data = ret'.arg
          /\ SubSeq(Data(bufs'[ret'.buf]), 1, ret'.off)
                = SubSeq(Data(bufs[ret'.buf]), 1, ret'.off)
          /\ bufs'[ret'.buf].size
                = Max({bufs[ret'.buf].size, ret'.off + Len(ret'.arg)})
          /\ Len(Data(bufs'[ret'.buf])) = bufs'[ret'.buf].size
          /\ bufs'[ret'.buf].hasChanges]_vars

\* a write inside a buffer: bytes are left before and after the written ones
C17_Witness ==
    /\ ret.op = "Write"
    /\ ret.status = "OK"
    /\ ret.off = 1
    /\ Len(ret.arg) = 1
    /\ bufs[ret.buf].size = 3
    /\ Read(bufs[ret.buf], 1, 1).data = ret.arg

\* after a truncate to a size n not greater than the size, a read of n + 1
\* bytes at 0 returns exactly the first n bytes held before, and the size
\* is n
TruncateCuts ==
    (ret'.op = "Truncate" /\ ret'.arg <= bufs[ret'.buf].size)
    => /\ ret'.status = "OK"
       /\ Read(bufs'[ret'.buf], ret'.arg + 1, 0).data
             = SubSeq(Data(bufs[ret'.buf]), 1, ret'.arg)
       /\ bufs'[ret'.buf].size = ret'.arg

\* a byte that is readable after a write was written by it, or was readable
\* at the same place before
NothingComesBack ==
    \A i \in 1..bufs'[ret'.buf].len :
        \/ ret'.off < i /\ i <= ret'.off + Len(ret'.arg)
        \/ i <= bufs[ret'.buf].len /\ bufs'[ret'.buf].arr[i] = bufs[ret'.buf].arr[i]

\* C18: for any buffer and any n not greater than its size, truncate(n)
\* followed by read(0, n + 1) returns exactly n bytes, the first n bytes held
\* before; truncate never increases the size; and no write makes bytes
\* readable that a truncate has cut off
C18_TruncateThenRead ==
    [][/\ TruncateCuts
       /\ (ret'.op = "Write" /\ ret'.status = "OK") => NothingComesBack]_vars

\* C18 for the writes at an offset not greater than the size
C18_TruncateThenWriteWithin ==
    [][/\ TruncateCuts
       /\ (ret'.op = "Write" /\ ret'.status = "OK"
             /\ ret'.off <= bufs[ret'.buf].size) => NothingComesBack]_vars

\* ------------------------------------------ properties of the file content
\* a file is created, opened by two goroutines, written, flushed, unlinked
SpecStore ==
    Init /\ [][\/ CreateFile
               \/ DoUnlink(TRUE)
               \/ \E t \in Threads : \/ OpenLoad(t)
                                      \/ OpenDisk(t)
                                      \/ OpenServer(t)
                                      \/ OpenInsert(t)
                                      \/ WriteOpen(t)
                                      \/ Close(t)
               \/ DoFlush(FALSE)
               \/ DoFlush(TRUE)]_vars

\* C19: two callers of GetContentID for the same id hold the same buffer,
\* however their calls interleave
C19_OneLiveBuffer ==
    \A t \in Threads, u \in Threads :
        (opens[t].pc = "open" /\ opens[u].pc = "open"
           /\ opens[t].key = opens[u].key)
        => opens[t].buf = opens[u].buf

\* C31: once a file that was created locally has the id of the server, no
\* content is held under the local id it had, in the map or in the
\* database, and the buffer of a goroutine that opened it under the local
\* id is the one the map holds under the id it has now
C31_ContentFollowsID ==
    ~crashed
    => \A id \in OpenKeys :
          id # localID(metadata[id])
          => /\ localID(metadata[id]) \notin DOMAIN content
             /\ localID(metadata[id]) \notin DOMAIN db
             /\ \A t \in Threads :
                   (opens[t].pc = "open"
                      /\ opens[t].key = localID(metadata[id]))
                   => /\ id \in DOMAIN content
                      /\ content[id] = opens[t].buf

\* the bytes a following GetContentID of the key returns are those of the
\* buffer k flushed, they come from the database, and the buffer is in the
\* map again
Reopened(o, key, k) ==
    /\ o.err = NoErr
    /\ ~o.panic
    /\ o.gets = 0
    /\ Data(o.c.bufs[o.buf]) = Data(bufs[k])
    /\ o.c.content[key] = o.buf
    /\ o.c.metadata = metadata'

\* C20: the flush of an id whose buffer is in the live map stores exactly
\* the bytes of the buffer in the database and removes the id from the live
\* map; a following GetContentID of the id returns those bytes from the
\* database, whatever the server would answer
C20_FlushThenOpen ==
    [][(ret'.op = "FlushContentID" /\ ret'.path[1] \in DOMAIN content)
       => /\ ret'.status = "OK"
          /\ ret'.path[1] \in DOMAIN db'
          /\ db'[ret'.path[1]] = Data(bufs[content[ret'.path[1]]])
          /\ ret'.path[1] \notin DOMAIN content'
          /\ \A put \in PutOutcomes, get \in GetOutcomes :
                Reopened(GetContentID([store EXCEPT !.db = db',
                                                    !.content = content'],
                                      ret'.path[1], fsAuth, put, get),
                         ret'.path[1], content[ret'.path[1]])]_vars

\* a buffer that was written to has been flushed
C20_Witness ==
    /\ ret.op = "FlushContentID"
    /\ ret.path[1] \in DOMAIN db
    /\ db[ret.path[1]] = <<"y">>
    /\ ret.path[1] \notin DOMAIN content

\* C15: after unlink(p) of a file has returned OK, neither the live map nor
\* the database holds content for the id of the file
C15_UnlinkDropsContent ==
    [][(ret'.op = "Unlink" /\ ret'.status = "OK"
          /\ ret'.item \in 1..Len(objs))
       => /\ objs[ret'.item].id \notin DOMAIN content'
          /\ objs[ret'.item].id \notin DOMAIN db']_vars

\* -------------------------------------------------- properties of Chmod
\* the same system, with a Chmod observed
SpecChmod == Init /\ [][Next \/ DoChmod(TRUE)]_vars

\* the item k has the kind it had and the permission bits of one of the
\* modes, and nothing else has changed
Chmodded(k) ==
    /\ ret'.status = "OK"
    /\ ret'.item = k
    /\ \E mode \in ChmodModes :
          objs'[k].mode = (IF IsDir(objs[k]) THEN S_IFDIR ELSE S_IFREG) + mode
    /\ IsDir(objs'[k]) <=> IsDir(objs[k])
    /\ [objs' EXCEPT ![k].mode = 0] = [objs EXCEPT ![k].mode = 0]
    /\ metadata' = metadata

\* C27: chmod of the path of an item of the graph, created locally or
\* enumerated from the server, returns OK, replaces the permission bits,
\* keeps the kind of the item and changes nothing else
C27_ChmodKeepsKind ==
    [][(/\ ret'.op = "Chmod"
        /\ GetPath(cache, ret'.path, emptyAuth, 0).item # Nil)
       => Chmodded(GetPath(cache, ret'.path, emptyAuth, 0).item)]_vars

\* C27 for an item whose cache pointer is set: one made by create or mkdir
\* below the root
C27_ChmodOfCreated ==
    [][(/\ ret'.op = "Chmod"
        /\ GetPath(cache, ret'.path, emptyAuth, 0).item # Nil
        /\ objs[GetPath(cache, ret'.path, emptyAuth, 0).item].cache)
       => Chmodded(GetPath(cache, ret'.path, emptyAuth, 0).item)]_vars

\* ------------------------------------------------- properties of deltas
\* files are created below the enumerated root while deltaLoop polls
SpecDelta ==
    Init /\ [][\/ DoGetAttr(FALSE)
               \/ DoCreate(FALSE)
               \/ DoPollDeltas(FALSE)
               \/ DoPollDeltas(TRUE)
               \/ DeltaSleep]_vars

\* the item with the id is gone: its path does not resolve, its directory
\* does not list it and no content is held for it
Evicted(id, path) ==
    /\ id \notin DOMAIN metadata'
    /\ GetAttr(cacheNext, path, 0).status = "ENOENT"
    /\ Base(path) \notin OpenDir(cacheNext, Dir(path), 0).entries
    /\ id \notin (DOMAIN content') \cup (DOMAIN db')

\* C21: after pollDeltas has applied a page with an item of the graph marked
\* deleted, the item is not in the graph, get_attr of its path returns
\* ENOENT, open_dir of its directory does not list it, and its content is
\* evicted
C21_DeltaDeletes ==
    [][(ret'.op = "pollDeltas" /\ ret'.status = "OK")
       => \A i \in 1..Len(ret'.page.values) :
             (/\ ret'.page.values[i].deleted
              /\ ret'.page.values[i].id \in DOMAIN metadata)
             => Evicted(ret'.page.values[i].id,
                        Path(Item(ret'.page.values[i].id)))]_vars

\* the cursor after an observed pollDeltas is what the protocol says: the
\* nextLink of the page with polling going on, else its deltaLink with
\* deltaLoop asleep; after a failed GET the cursor it was, with deltaLoop
\* asleep.  A link is stored without the prefix the requests put before it.
CursorFollows ==
    IF ret'.status # "OK"
    THEN deltaLink' = deltaLink /\ deltaLoop' = "sleep"
    ELSE IF ret'.page.next # << >>
    THEN /\ <<graphURL>> \o deltaLink' = ret'.page.next
         /\ ret'.cont
         /\ deltaLoop' = "poll"
    ELSE /\ TrimPrefix(ret'.page.delta, graphURL) = deltaLink'
         /\ ~ret'.cont
         /\ deltaLoop' = "sleep"

\* C28: a page with a nextLink makes that link the cursor and polling goes
\* on; a page without makes its deltaLink the cursor and polling stops until
\* the next interval; a failed GET leaves the cursor as it was; and after a
\* poll whose page carried a nextLink or a deltaLink, or whose GET failed,
\* a cursor that was not empty is not empty
C28_CursorProtocol ==
    [][ret'.op = "pollDeltas"
       => /\ CursorFollows
          /\ (/\ deltaLink # << >>
              /\ \/ ret'.status # "OK"
                 \/ ret'.page.next # << >>
                 \/ ret'.page.delta # << >>)
             => deltaLink' # << >>]_vars

\* C28 as stated: the cursor is never empty
C28_NeverEmpty ==
    [][ret'.op = "pollDeltas"
       => /\ CursorFollows
          /\ deltaLink' # << >>]_vars

\* a page with a nextLink was polled after the first one: the cursor is the
\* link, and deltaLoop polls on
C28_Witness ==
    /\ ret.op = "pollDeltas"
    /\ ret.status = "OK"
    /\ ret.page.next # << >>
    /\ ret.page.delta # << >>
    /\ deltaLink = Tail(ret.page.next)
    /\ deltaLoop = "poll"

\* -------------------------------------------------- properties of Mkdir
\* the same system, with a Mkdir observed
SpecMkdir == Init /\ [][Next \/ DoMkdir(TRUE)]_vars

\* the directory k made at path is in the graph under a remote id, which is
\* once in the children of its parent; k is under no local id; open_dir of
\* the path succeeds and lists nothing
MadeDir(k, path) ==
    /\ ~isLocalID(objs'[k].id)
    /\ GetID(cacheNext, objs'[k].id) = k
    /\ Listed(cacheNext, Dir(path), objs'[k].id) = 1
    /\ \A id \in LocalIDs : GetID(cacheNext, id) # k
    /\ OpenDir(cacheNext, path, 0).status = "OK"
    /\ OpenDir(cacheNext, path, 0).entries = {}

\* C22: after mkdir(p), for a path p at which the lookup finds nothing below
\* what it finds to be a directory, has returned OK the new directory is in the graph
\* under the id the server returned, once in the children of its parent and
\* under no local id, and open_dir(p) succeeds with an empty listing; a
\* mkdir whose POST fails returns EREMOTEIO and leaves the graph as it was
C22_MkdirPromoted ==
    [][ret'.op = "Mkdir"
       => /\ (/\ ret'.status = "OK"
              /\ Before(ret'.path).item = Nil
              /\ Before(Dir(ret'.path)).item # Nil
              /\ IsDir(Before(Dir(ret'.path)).c.objs[
                           Before(Dir(ret'.path)).item]))
             => MadeDir(ret'.item, ret'.path)
          /\ \A mode \in MkdirModes, gets \in GetsChoices :
                /\ Mkdir(cache, ret'.path, mode, FALSE, gets).status
                      = "EREMOTEIO"
                /\ Mkdir(cache, ret'.path, mode, FALSE, gets).c = cache]_vars

\* a directory was made below the directory b that the server holds
C22_Witness ==
    /\ ret.op = "Mkdir"
    /\ ret.status = "OK"
    /\ ret.path = <<"b", "a">>
    /\ ret.item # Nil
    /\ objs[ret.item].parentID = "srv-1"
    /\ GetID(cache, serverID(ret.item)) = ret.item

\* ------------------------------------ properties of uninitialized children
\* C23: a create below a directory of the graph whose children list is
\* uninitialized leaves the list uninitialized, and every child the server
\* holds in the directory resolves afterwards, the server answering
C23_InsertKeepsUnenumerated ==
    [][(ret'.op = "Create" /\ ret'.status = "OK")
       => \A d \in DOMAIN metadata :
             (/\ IsDir(Item(d))
              /\ Item(d).childrenNil
              /\ objs'[ret'.item].parentID = d)
             => /\ objs'[metadata[d]].childrenNil
                /\ \A i \in 1..Len(ServerChildren(d)) :
                      GetAttr(cacheNext,
                              Append(Path(Item(d)), ServerChildren(d)[i].name),
                              Cardinality(ServerDirs)).status = "OK"]_vars

\* ------------------------------------------ properties of a failed DELETE
\* the same system, with an Unlink or a Rmdir observed
SpecRemove == Init /\ [][Next \/ DoUnlink(TRUE) \/ DoRmdir(TRUE)]_vars

\* C25: an unlink of a file with a remote id, or a rmdir, whose DELETE the
\* server refuses returns EREMOTEIO, and a call that returned EREMOTEIO has
\* sent one DELETE and left the graph as it was: what resolved at the path
\* still does
C25_DeleteFails ==
    [][/\ ret'.op = "Rmdir"
          => /\ Rmdir(cache, ret'.path, FALSE).status = "EREMOTEIO"
             /\ Rmdir(cache, ret'.path, FALSE).c = cache
       /\ (/\ ret'.op = "Unlink"
           /\ GetPath(cache, ret'.path, emptyAuth, 0).item # Nil
           /\ ~isLocalID(objs[GetPath(cache, ret'.path, emptyAuth, 0).item].id))
          => /\ Unlink(cache, ret'.path, FALSE, 0).status = "EREMOTEIO"
             /\ Unlink(cache, ret'.path, FALSE, 0).c = cache
       /\ (ret'.op \in {"Unlink", "Rmdir"} /\ ret'.status = "EREMOTEIO")
          => /\ ret'.deletes = 1
             /\ metadata' = metadata
             /\ objs' = objs
             /\ GetPath(cacheNext, ret'.path, emptyAuth, 0).item
                   = GetPath(cache, ret'.path, emptyAuth, 0).item]_vars

\* the rmdir of the directory b was refused by the server, and b resolves
C25_Witness ==
    /\ ret.op = "Rmdir"
    /\ ret.status = "EREMOTEIO"
    /\ ret.path = <<"b">>
    /\ GetAttr(cache, <<"b">>, 0).status = "OK"

\* ------------------------------------------------ properties of GetPath
\* the same system, with a GetPath with the empty Auth or a GetAttr observed
SpecResolve == Init /\ [][Next \/ DoGetPath \/ DoGetAttr(TRUE)]_vars

\* r is a directory of the graph whose children list is uninitialized
UninitializedDir(r) ==
    /\ r.err = NoErr
    /\ r.item # Nil
    /\ IsDir(objs[r.item])
    /\ objs[r.item].childrenNil

\* the walk along path comes to a directory whose children list is
\* uninitialized
ReachesUninitialized(path) ==
    \E j \in 0..(Len(path) - 1) :
        UninitializedDir(GetPath(cache, SubSeq(path, 1, j), emptyAuth, 0))

\* r, a GetPath with fs.Auth on the cache after the step, has found the
\* item that was found, without a request and without a change
FoundAgain(r, gets) ==
    /\ r.err = NoErr
    /\ r.item = ret'.item
    /\ r.gets = gets
    /\ r.c = cacheNext

\* C26: GetPath with the empty Auth sends no request and leaves the graph
\* as it was, fails with the error of the missing Auth exactly when the
\* walk comes to a directory whose children list is uninitialized, and
\* returns the root for "/"; after a get_attr has found an item, a GetPath
\* of the same path finds the same item without a request
C26_ResolveOffline ==
    [][/\ ret'.op = "GetPath"
          => /\ objs' = objs
             /\ metadata' = metadata
             /\ \A gets \in GetsChoices :
                   GetPath(cache, ret'.path, emptyAuth, gets).gets = gets
             /\ ret'.status = ErrNoAuth <=> ReachesUninitialized(ret'.path)
             /\ ret'.path = << >>
                   => /\ ret'.status = "OK"
                      /\ ret'.item = metadata[rootID]
                      /\ objs[ret'.item].id = rootID
       /\ (ret'.op = "GetAttr" /\ ret'.status = "OK")
          => \A gets \in GetsChoices :
                FoundAgain(GetPath(cacheNext, ret'.path, fsAuth, gets), gets)
      ]_vars

\* a GetPath with the empty Auth has walked through the root to a directory
\* whose children list is uninitialized
C26_Witness ==
    /\ ret # NoCall
    /\ ret.op = "GetPath"
    /\ ret.status = ErrNoAuth
    /\ Len(ret.path) = 2

\* ------------------------------------- properties of a held item pointer
\* The handlers run between the calls of Chmod; Chmod runs in two steps,
\* an Unlink or a Rmdir in between.
SpecHandle ==
    Init /\ [][\/ moving.pc = "idle" /\ Next
               \/ ChmodStart
               \/ moving.pc = "chmod" /\ DoUnlink(FALSE)
               \/ moving.pc = "chmod" /\ DoRmdir(FALSE)
               \/ ChmodFinish
               \/ UtimensFinish]_vars

\* the path at which the held item was found is known not to exist
Gone(c) == GetPath(c, moving.path, emptyAuth, 0).err = ErrNotExist

\* C30: when the path at which a handler found its item has been unlinked
\* since, a Chmod or Utimens of the item held does not make the path
\* resolve again
C30_UnlinkedStaysGone ==
    [][(/\ moving.pc = "chmod"
        /\ moving'.pc = "idle"
        /\ ~crashed'
        /\ Gone(cache))
       => Gone(cacheNext)]_vars

\* ------------------------------------ properties of concurrent promotion
\* The handlers that change the graph run between the calls of RemoteID;
\* one RemoteID runs in steps, another one on the same item in between.
SpecRace ==
    Init /\ [][\/ moving.pc = "idle" /\ Next
               \/ RemoteIDStart
               \/ RemoteIDPut
               \/ RemoteIDOther
               \/ MoveGet
               \/ MoveParent
               \/ MoveRename
               \/ MoveInsert
               \/ MoveDelete]_vars

\* C29: when two handlers have called RemoteID on the same local file, whose
\* path resolved to it, and the file has got the id of the server, the id is
\* a key of the graph that maps to the file, and its path resolves to it
C29_PromotedTwice ==
    [][(/\ moving.pc # "idle"
        /\ moving'.pc = "idle"
        /\ ~crashed'
        /\ moving.found
        /\ ~isLocalID(objs'[moving.k].id))
       => /\ GetID(cacheNext, objs'[moving.k].id) = moving.k
          /\ GetPath(cacheNext, moving.path, emptyAuth, 0).item = moving.k
      ]_vars

\* ------------------------------------- properties of concurrent creates
\* The handlers run between the calls of Create; one Create runs in two
\* steps, another Create in between.
SpecAppend ==
    Init /\ [][\/ moving.pc = "idle" /\ Next
               \/ CreateStart
               \/ moving.pc = "append" /\ DoCreate(FALSE)
               \/ CreateAppend]_vars

\* the ids of the list s
Ids(s) == {s[i] : i \in 1..Len(s)}

\* C24: when a Create that ran along with another Create has stored the
\* children list of the parent, the list holds the id of its item and every
\* id it held before, and the item is in the graph
C24_BothCreated ==
    [][(/\ moving.pc = "append"
        /\ moving'.pc = "idle"
        /\ ~crashed')
       => /\ Ids(objs[moving.item].children) \subseteq
                Ids(objs'[moving.item].children)
          /\ moving.oldID \in Ids(objs'[moving.item].children)
          /\ GetID(cacheNext, moving.oldID) = moving.k]_vars

\* ------------------------------------------------- properties of StatFs
\* the quotas the server answers with
FileCounts ==
    {FromInt(0), FromInt(1), FromInt(99999), FromInt(100000),
     FromInt(100001), MaxUint64}

Sizes ==
    {FromInt(0), FromInt(4095), FromInt(4096), FromInt(1073741824),
     <<0, 0, 1, 0>>, MaxUint64}

\* FuseFs.StatFs has returned out for the quota of the server
StatFsReturned(quota, get, out) ==
    /\ ~crashed
    /\ ret' = [op |-> "StatFs", status |-> "OK", quota |-> quota,
               get |-> get, out |-> out]
    /\ UNCHANGED <<objs, metadata, crashed, bufs, content, db, opens, moving,
                   deltaLink, deltaLoop>>

DoStatFs ==
    \E total \in Sizes, remaining \in Sizes, fileCount \in FileCounts,
       get \in BOOLEAN :
        StatFsReturned([total |-> total, remaining |-> remaining,
                        fileCount |-> fileCount],
                       get,
                       StatFs([total |-> total, remaining |-> remaining,
                               fileCount |-> fileCount], get))

SpecStatFs == Init /\ [][DoStatFs]_vars

\* C34: StatFs reports no more free files than files, 100000, whatever
\* fileCount the server answers with, and no more free blocks than blocks
\* when remaining is at most total
C34_FreeWithinTotal ==
    ret.op = "StatFs"
    => /\ ret.out.Files = FromInt(100000)
       /\ Leq64(ret.out.Ffree, ret.out.Files)
       /\ (ret.get /\ Leq64(ret.quota.remaining, ret.quota.total))
          => Leq64(ret.out.Bfree, ret.out.Blocks)

\* C34 while fileCount is at most 100000
C34_FreeWhileCounted ==
    (ret.op = "StatFs"
     /\ (ret.get => Leq64(ret.quota.fileCount, FromInt(100000))))
    => /\ ret.out.Files = FromInt(100000)
       /\ Leq64(ret.out.Ffree, ret.out.Files)
       /\ (ret.get /\ Leq64(ret.quota.remaining, ret.quota.total))
          => Leq64(ret.out.Bfree, ret.out.Blocks)

\* ------------------------------------ properties of paths that do not resolve
\* the same system, with a handler that takes a path observed
SpecMissing ==
    Init /\ [][\/ Next
               \/ DoUnlink(TRUE)
               \/ DoRmdir(TRUE)
               \/ DoRename(TRUE)
               \/ DoChmodUnknown
               \/ DoOpen]_vars

\* the path resolves to no item, whatever the server answers
Missing(path) ==
    \A gets \in GetsChoices : GetPath(cache, path, fsAuth, gets).item = Nil

\* the step has left the graph as it was, apart from the children a lookup
\* has fetched into a directory that was not enumerated
GraphKept ==
    /\ ~crashed'
    /\ \A id \in DOMAIN metadata :
          /\ id \in DOMAIN metadata'
          /\ metadata'[id] = metadata[id]
          /\ IF objs[metadata[id]].childrenNil
             THEN [objs'[metadata[id]] EXCEPT !.children = << >>,
                                             !.childrenNil = TRUE,
                                             !.subdir = 0]
                    = [objs[metadata[id]] EXCEPT !.children = << >>,
                                                !.childrenNil = TRUE,
                                                !.subdir = 0]
             ELSE objs'[metadata[id]] = objs[metadata[id]]
    /\ \A id \in (DOMAIN metadata') \ (DOMAIN metadata) : ~isLocalID(id)

\* C33: unlink, rmdir, rename, chmod and open of a path that does not
\* resolve return an error status and leave the graph as it was
C33_MissingIsAnError ==
    [][(/\ ret'.op \in {"Unlink", "Rmdir", "Rename", "Chmod", "Open"}
        /\ Missing(ret'.path))
       => /\ ret'.status \notin {"OK", "PANIC"}
          /\ GraphKept]_vars

\* C33 for unlink and open of a path the graph knows not to exist
C33_AbsentIsAnError ==
    [][(/\ ret'.op \in {"Unlink", "Open"}
        /\ GetPath(cache, ret'.path, emptyAuth, 0).err = ErrNotExist)
       => /\ ret'.status \in {"ENOENT", "EREMOTEIO"}
          /\ cacheNext = cache]_vars

\* -------------------------------- properties of concurrent enumeration
\* The handlers run between the calls of GetChildrenID; one GetChildrenID
\* runs in two steps, a GetAttr or an OpenDir in between.
SpecEnumerate ==
    Init /\ [][\/ moving.pc = "idle" /\ Next
               \/ EnumerateStart
               \/ moving.pc = "fetch" /\ DoGetAttr(FALSE)
               \/ moving.pc = "fetch" /\ DoOpenDir(FALSE)
               \/ EnumerateStore]_vars

\* the entries of the list s that are directories of the graph after the
\* step
DirsAfter(s) ==
    {i \in 1..Len(s) : /\ s[i] \in DOMAIN metadata'
                       /\ IsDir(objs'[metadata'[s[i]]])}

\* C32: when a GetChildrenID that found the children list of a directory
\* uninitialized has stored what it fetched, another one having done the
\* same in between or not, the list holds the id of every child of the
\* server exactly once and subdir is the number of its directories
C32_EnumeratedOnce ==
    [][(/\ moving.pc = "fetch"
        /\ moving'.pc = "idle"
        /\ ~crashed'
        /\ ~objs'[moving.k].childrenNil)
       => /\ \A s \in Range(ServerChildren(moving.oldID)) :
                Cardinality({i \in 1..Len(objs'[moving.k].children) :
                                objs'[moving.k].children[i] = s.id}) = 1
          /\ objs'[moving.k].subdir =
                Cardinality(DirsAfter(objs'[moving.k].children))]_vars

====
